---------------------------- MODULE Spec2Model ----------------------------
(***************************************************************************)
(* Hash table engines of rust-hashtables: separate chaining, linear        *)
(* probing with tombstones, two-choice cuckoo, bucketized d-ary cuckoo and  *)
(* the lock-striped resizable chaining table.                               *)
(*                                                                          *)
(* Option<V> is encoded with None == 0 and Some(v) == v for v in 1..MaxVal.  *)
(* A bucket chain (Option<Entry> with its Box-linked `next` entries) is a   *)
(* sequence of [key, value] records, head first; the empty sequence is      *)
(* Option::None.  Bucket index i of the source is element i + 1 here.       *)
(***************************************************************************)
EXTENDS Integers, Sequences, FiniteSets, TLC

\* ------------------------------------------------------------------ bounds
MaxKey == 2
MaxVal == 2
MaxLen == 5
MaxBuckets == 4
MaxSeed == 1
MaxReseed == 1
MaxRetry == 2
MaxThreads == 2
MaxCalls == 3
MaxCapacity == 2
MaxSlots == 4
MaxShape == 2
MaxLoad == 2

Keys == 0..MaxKey
None == 0

\* The tables carry values opaquely (they are moved, never compared): two
\* distinct payloads tell an overwrite or a stale value from the right one.
Payloads == {1, MaxVal}

\* Where every key is inserted with one value of its own, as in
\* table.insert(i, Arc::new(i)), the payload names the key it came with.
KeyPayload(key) == key + 1

\* ------------------------------------------------------- shared helpers
\* Smallest element of a non-empty set of integers.
SetMin(S) == CHOOSE x \in S : \A y \in S : x <= y
SetMax(S) == CHOOSE x \in S : \A y \in S : x >= y

\* Sequence s without its element at position p.
DropAt(s, p) == [i \in 1..(Len(s) - 1) |-> IF i < p THEN s[i] ELSE s[i + 1]]

\* DefaultHasher (SipHash) is opaque: it is a fixed deterministic function of
\* the key.  The stand-in spreads keys four apart so that they share a bucket
\* in small arrays and separate as the array doubles.
calculate_hash(key) == 4 * key

\* (0..capacity).map(|_| None).collect()
EmptyBuckets(capacity) == [i \in 1..capacity |-> <<>>]

\* Lazily allocated bucket count of insert on an empty bucket array.
DefaultCapacity == 64

\* ==================================================================
\* 4.1 Chaining table (chaining_hashing.rs)
\* ==================================================================
\* with_exact_capacity(2, 1.0) of tests::test_collision_handling
ch_capacity == 2
ch_load_factor == [num |-> 1, den |-> 1]

\* new() and with_capacity() construct with load factor 0.4.  The code
\* compares f64 quotients; length / buckets.len() is exact for the
\* power-of-two multiples the bucket count runs through and never equals
\* 2/5, so the comparison with 0.4 agrees with the one of the rationals.
ch_default_load_factor == [num |-> 2, den |-> 5]

\* Self::with_exact_capacity(capacity * 8, 0.4)
ch_fan_out == 8

ch_with_exact_capacity(capacity, load_factor) ==
    [buckets |-> EmptyBuckets(capacity), length |-> 0, load_factor |-> load_factor]

ch_with_capacity(capacity) ==
    ch_with_exact_capacity(capacity * ch_fan_out, ch_default_load_factor)

ch_len(t) == t.length

ch_is_empty(t) == t.length = 0

\* fill_factor() >= load_factor, in exact rational arithmetic
ch_over_load(t) ==
    IF Len(t.buckets) = 0
    THEN 0 >= t.load_factor.num
    ELSE t.length * t.load_factor.den >= t.load_factor.num * Len(t.buckets)

ch_index(t, key) == (calculate_hash(key) % Len(t.buckets)) + 1

\* Positions of the chain at which get compares the key: the head, then every
\* following node.
ch_get_scan(chain) == 1..Len(chain)

ch_get(t, key) ==
    IF ch_is_empty(t) THEN None
    ELSE LET chain == t.buckets[ch_index(t, key)]
             hits == {p \in ch_get_scan(chain) : chain[p].key = key}
         IN IF hits = {} THEN None ELSE chain[SetMin(hits)].value

\* Positions of the chain at which remove compares the key: the head; when
\* the head misses and has a successor `miss`, the walk starts at miss.next,
\* so the second node is never compared.
ch_remove_scan(chain) == {1} \cup 3..Len(chain)

ch_remove(t, key) ==
    IF ch_is_empty(t) THEN [table |-> t, ret |-> None]
    ELSE LET idx == ch_index(t, key)
             chain == t.buckets[idx]
             hits == {p \in ch_remove_scan(chain) \cap 1..Len(chain) : chain[p].key = key}
         IN IF hits = {} THEN [table |-> t, ret |-> None]
            ELSE LET p == SetMin(hits)
                         IN [table |-> [t EXCEPT !.buckets[idx] = DropAt(chain, p),
                                         !.length = @ - 1],
                     ret |-> chain[p].value]

\* The entries of the bucket array in the order rehash drains them.
RECURSIVE FlattenRange(_, _, _)
FlattenRange(buckets, lo, hi) ==
    IF lo > hi THEN <<>>
    ELSE IF lo = hi THEN buckets[lo]
    ELSE LET mid == (lo + hi) \div 2
         IN FlattenRange(buckets, lo, mid) \o FlattenRange(buckets, mid + 1, hi)

FlattenChains(buckets) == FlattenRange(buckets, 1, Len(buckets))

\* Mutation of ch_prepend: the fresh entry is linked at the tail of the chain.
ch_prepend_at_tail(t, key, value) ==
    [t EXCEPT !.buckets[ch_index(t, key)] = @ \o <<[key |-> key, value |-> value]>>,
              !.length = @ + 1]

\* Prepending the fresh entry as the new chain head and counting it.
ch_prepend(t, key, value) ==
    [t EXCEPT !.buckets[ch_index(t, key)] = <<[key |-> key, value |-> value]>> \o @,
              !.length = @ + 1]

RECURSIVE ch_insert(_, _, _)
RECURSIVE ch_insert_all(_, _)
RECURSIVE ch_rehash(_)

ch_insert(t, key, value) ==
    LET t1 == IF Len(t.buckets) = 0
              THEN [t EXCEPT !.buckets = EmptyBuckets(DefaultCapacity)]
              ELSE t
        t2 == IF ch_over_load(t1) THEN ch_rehash(t1) ELSE t1
        old == ch_remove(t2, key)
    IN [table |-> ch_prepend(old.table, key, value), ret |-> old.ret]

\* new_table.insert(entry.key, entry.value) for every drained entry
ch_insert_all(t, entries) ==
    IF Len(entries) = 0 THEN t
    ELSE ch_insert_all(ch_insert(t, Head(entries).key, Head(entries).value).table,
                       Tail(entries))

ch_rehash(t) ==
    ch_insert_all(ch_with_exact_capacity(Len(t.buckets) * 2, t.load_factor),
                  FlattenChains(t.buckets))

ch_clear(t) == [t EXCEPT !.buckets = EmptyBuckets(Len(t.buckets)), !.length = 0]

\* ==================================================================
\* 4.2 Open-addressing table (open_hashing.rs)
\* ==================================================================
\* with_exact_capacity(2, 1.0) of tests::test_collision_handling
oa_capacity == 2
oa_load_factor == [num |-> 1, den |-> 1]

\* enum Bucket { None, Entry(Entry), Tomb }
oa_None == [kind |-> "None", key |-> 0, value |-> 0]
oa_Tomb == [kind |-> "Tomb", key |-> 0, value |-> 0]
oa_Entry(key, value) == [kind |-> "Entry", key |-> key, value |-> value]

\* new() and with_capacity() construct with load factor 0.4; as for the
\* chaining table the f64 comparison agrees with the one of the rationals.
oa_default_load_factor == [num |-> 2, den |-> 5]

\* Self::with_exact_capacity(capacity * 8, 0.4)
oa_fan_out == 8

oa_with_exact_capacity(capacity, load_factor) ==
    [buckets |-> [i \in 1..capacity |-> oa_None], length |-> 0, tomb_count |-> 0,
     load_factor |-> load_factor]

oa_with_capacity(capacity) ==
    oa_with_exact_capacity(capacity * oa_fan_out, oa_default_load_factor)

oa_len(t) == t.length

oa_is_empty(t) == t.length = 0

\* fill_factor() + tomb_factor() >= load_factor; both quotients share the
\* denominator buckets.len()
oa_over_load(t) ==
    IF Len(t.buckets) = 0
    THEN 0 >= t.load_factor.num
    ELSE (t.length + t.tomb_count) * t.load_factor.den
             >= t.load_factor.num * Len(t.buckets)

\* The n-th slot (n = 0, 1, ...) of the probe run of key, wrapping around.
oa_probe(t, key, n) == ((calculate_hash(key) + n) % Len(t.buckets)) + 1

\* b.iter().chain(a.iter()).take_while(|bucket| !matches!(bucket, Bucket::None)):
\* the probe steps before the first empty slot, at most one full turn.
oa_run(t, key) ==
    {n \in 0..(Len(t.buckets) - 1) :
        \A m \in 0..n : t.buckets[oa_probe(t, key, m)].kind # "None"}

\* Probe steps of the run whose slot holds an entry for key.
oa_hits(t, key) ==
    {n \in oa_run(t, key) :
        /\ t.buckets[oa_probe(t, key, n)].kind = "Entry"
        /\ t.buckets[oa_probe(t, key, n)].key = key}

oa_get(t, key) ==
    IF oa_is_empty(t) THEN None
    ELSE IF oa_hits(t, key) = {} THEN None
    ELSE t.buckets[oa_probe(t, key, SetMin(oa_hits(t, key)))].value

\* Mutation of oa_removed_slot: the slot is emptied instead of marked.
oa_removed_slot_emptied == oa_None

\* What remove leaves in the slot of the removed entry.
oa_removed_slot == oa_Tomb

\* Mutation of oa_remove: the tombstone is written and not counted.
oa_remove_uncounted(t, key) ==
    IF oa_is_empty(t) \/ oa_hits(t, key) = {} THEN [table |-> t, ret |-> None]
    ELSE LET slot == oa_probe(t, key, SetMin(oa_hits(t, key)))
         IN [table |-> [t EXCEPT !.buckets[slot] = oa_removed_slot, !.length = @ - 1],
             ret |-> t.buckets[slot].value]

oa_remove(t, key) ==
    IF oa_is_empty(t) \/ oa_hits(t, key) = {} THEN [table |-> t, ret |-> None]
    ELSE LET slot == oa_probe(t, key, SetMin(oa_hits(t, key)))
         IN [table |-> [t EXCEPT !.buckets[slot] = oa_removed_slot,
                                 !.length = @ - 1,
                                 !.tomb_count = @ + 1],
             ret |-> t.buckets[slot].value]

\* Probe steps at which the insert loop stops: an empty slot, a tombstone, or
\* an entry with the same key; entries with other keys are stepped over.
oa_insert_stops(t, key) ==
    {n \in 0..(Len(t.buckets) - 1) :
        LET b == t.buckets[oa_probe(t, key, n)]
        IN b.kind = "None" \/ b.kind = "Tomb" \/ (b.kind = "Entry" /\ b.key = key)}

\* The loop of insert never breaks: the table is neither allocated nor
\* rebuilt by this call, and every slot holds an entry with another key.
oa_insert_spins(t, key) ==
    /\ Len(t.buckets) > 0
    /\ ~oa_over_load(t)
    /\ oa_insert_stops(t, key) = {}

\* The loop of insert on a table that is allocated and below its load factor.
oa_place(t, key, value) ==
    LET slot == oa_probe(t, key, SetMin(oa_insert_stops(t, key)))
        b == t.buckets[slot]
        filled == [t.buckets EXCEPT ![slot] = oa_Entry(key, value)]
    IN IF b.kind = "None"
       THEN [table |-> [t EXCEPT !.buckets = filled, !.length = @ + 1], ret |-> None]
       ELSE IF b.kind = "Tomb"
       THEN [table |-> [t EXCEPT !.buckets = filled, !.length = @ + 1,
                                 !.tomb_count = @ - 1],
             ret |-> None]
       ELSE [table |-> [t EXCEPT !.buckets = filled], ret |-> b.value]

\* The entries of the bucket array in the order rehash drains them.
oa_entries(buckets) == SelectSeq(buckets, LAMBDA b : b.kind = "Entry")

RECURSIVE oa_insert(_, _, _)
RECURSIVE oa_insert_all(_, _)
RECURSIVE oa_rehash(_)

oa_insert(t, key, value) ==
    LET t1 == IF Len(t.buckets) = 0
              THEN [t EXCEPT !.buckets = [i \in 1..DefaultCapacity |-> oa_None]]
              ELSE t
        t2 == IF oa_over_load(t1) THEN oa_rehash(t1) ELSE t1
    IN oa_place(t2, key, value)

oa_insert_all(t, entries) ==
    IF Len(entries) = 0 THEN t
    ELSE oa_insert_all(oa_insert(t, Head(entries).key, Head(entries).value).table,
                       Tail(entries))

oa_rehash(t) ==
    oa_insert_all(oa_with_exact_capacity(Len(t.buckets) * 2, t.load_factor),
                  oa_entries(t.buckets))

\* Mutation of oa_clear: length is reset and the slots are left as they were.
oa_clear_length_only(t) == [t EXCEPT !.length = 0]

\* clear() resets length and the slots; tomb_count is left as it was.
oa_clear(t) == [t EXCEPT !.buckets = [i \in 1..Len(t.buckets) |-> oa_None], !.length = 0]

\* ==================================================================
\* 4.3 Two-choice cuckoo table (cuckoo_hashing.rs)
\* ==================================================================
\* with_exact_capacity(2, 0.2) of tests::test_collision_handling
ck_capacity == 2
ck_load_factor == [num |-> 1, den |-> 5]

\* hasher.write_u64(rng.gen::<u64>()): the random seed of a hasher.  Two
\* seeds stand for the u64 draws: 0, under which all keys hash alike, and
\* MaxSeed, under which they spread.
Seeds == {0, MaxSeed}

\* DefaultHasher seeded with a random u64 is an opaque function of seed and
\* key: the stand-in is constant under seed 0 and a shift of the key under
\* the other seeds, so that slots are shared under some seeds and not under
\* others.
seeded_hash(key, seed) == IF seed = 0 THEN 0 ELSE key + seed - 1

\* A slot is Option<Entry>: <<>> or a one-element sequence.
ck_with_exact_capacity(capacity, load_factor, seed_a, seed_b) ==
    [buckets |-> EmptyBuckets(capacity), length |-> 0, load_factor |-> load_factor,
     hasher_a |-> seed_a, hasher_b |-> seed_b]

\* Mutation of ck_default_load_factor: a load factor of 1/32.
ck_default_load_factor_low == [num |-> 1, den |-> 32]

\* new() and with_capacity() construct with load factor 0.4; as for the
\* chaining table the f64 comparison agrees with the one of the rationals.
ck_default_load_factor == [num |-> 2, den |-> 5]

\* Self::with_exact_capacity(capacity * 8 * 2, 0.4): 8 * 2 buckets per unit
ck_fan_out == 16

\* Mutation of ck_with_capacity: the buckets per unit are forgotten.
ck_with_capacity_exact(capacity, seed_a, seed_b) ==
    ck_with_exact_capacity(capacity, ck_default_load_factor, seed_a, seed_b)

ck_with_capacity(capacity, seed_a, seed_b) ==
    ck_with_exact_capacity(capacity * ck_fan_out, ck_default_load_factor, seed_a, seed_b)

ck_len(t) == t.length

ck_is_empty(t) == t.length = 0

ck_over_load(t) ==
    IF Len(t.buckets) = 0
    THEN 0 >= t.load_factor.num
    ELSE t.length * t.load_factor.den >= t.load_factor.num * Len(t.buckets)

\* let half = self.buckets.len() / 2; split_at_mut(half)
ck_half(t) == Len(t.buckets) \div 2

ck_index_a(t, key) == (seeded_hash(key, t.hasher_a) % ck_half(t)) + 1

ck_index_b(t, key) ==
    ck_half(t) + (seeded_hash(key, t.hasher_b) % (Len(t.buckets) - ck_half(t))) + 1

ck_holds(t, slot, key) == t.buckets[slot] # <<>> /\ t.buckets[slot][1].key = key

\* The candidate slots get, get_mut and remove look at, in order.
ck_candidates(t, key) == <<ck_index_a(t, key), ck_index_b(t, key)>>

ck_found(t, key) ==
    IF ck_is_empty(t) THEN 0
    ELSE LET c == ck_candidates(t, key)
             hits == {i \in 1..Len(c) : ck_holds(t, c[i], key)}
         IN IF hits = {} THEN 0 ELSE c[SetMin(hits)]

ck_get(t, key) ==
    IF ck_found(t, key) = 0 THEN None ELSE t.buckets[ck_found(t, key)][1].value

ck_remove(t, key) ==
    IF ck_found(t, key) = 0 THEN [table |-> t, ret |-> None]
    ELSE [table |-> [t EXCEPT !.buckets[ck_found(t, key)] = <<>>, !.length = @ - 1],
          ret |-> t.buckets[ck_found(t, key)][1].value]

ck_clear(t) == [t EXCEPT !.buckets = EmptyBuckets(Len(t.buckets)), !.length = 0]

\* Mutation of ck_fill: the entry is stored and not counted.
ck_fill_uncounted(t, slot, entry) == [t EXCEPT !.buckets[slot] = <<entry>>]

\* *bucket = Some(entry); self.length += 1
ck_fill(t, slot, entry) == [t EXCEPT !.buckets[slot] = <<entry>>, !.length = @ + 1]

\* Mutation of ck_swap: the slot keeps its occupant and the entry is lost.
ck_swap_keeps_occupant(t, slot, entry) == t

\* Mutation of ck_swap: the replaced slot is counted as a new entry.
ck_swap_counted(t, slot, entry) == ck_fill(t, slot, entry)

\* mem::replace(occupant, entry): the slot takes entry, the occupant is evicted
ck_swap(t, slot, entry) == [t EXCEPT !.buckets[slot] = <<entry>>]

\* for _ in 0..self.length
ck_loop_bound(t) == t.length

\* The displacement loop: `left` iterations remain, entry is the evicted
\* entry in hand.  done = FALSE when the loop ran out; ran counts the
\* iterations of the loop body that were executed.
RECURSIVE ck_kick(_, _, _, _)
ck_kick(t, entry, fill_a, left) ==
    IF left = 0 THEN [done |-> FALSE, table |-> t, entry |-> entry, ran |-> 0]
    ELSE LET a == ck_index_a(t, entry.key)
             b == ck_index_b(t, entry.key)
             counted(k) == [k EXCEPT !.ran = @ + 1]
         IN IF t.buckets[a] = <<>>
            THEN [done |-> TRUE, table |-> ck_fill(t, a, entry), entry |-> entry, ran |-> 1]
            ELSE IF t.buckets[b] = <<>>
            THEN [done |-> TRUE, table |-> ck_fill(t, b, entry), entry |-> entry, ran |-> 1]
            ELSE IF fill_a
            THEN counted(ck_kick(ck_swap(t, a, entry), t.buckets[a][1], FALSE, left - 1))
            ELSE counted(ck_kick(ck_swap(t, b, entry), t.buckets[b][1], TRUE, left - 1))

\* The occupied slots of the bucket array in the order rehash drains them.
ck_entries(buckets) == FlattenChains(buckets)

\* insert and rehash return the set of their possible outcomes, one for each
\* choice of the random seeds.  `reseeds` bounds how deep one insert nests
\* rehash calls; an insert that needs more has no outcome (it has not
\* returned).  An outcome tells the table, the value returned, the paths
\* taken, how many times the call and its retries ran self.rehash(1), and how
\* many iterations the displacement loop of the call itself ran.
RECURSIVE ck_insert(_, _, _, _)
RECURSIVE ck_insert_all(_, _, _)
RECURSIVE ck_rehash(_, _, _)
RECURSIVE ck_place(_, _, _, _)

ck_place(t, key, value, reseeds) ==
    LET a == ck_index_a(t, key)
        b == ck_index_b(t, key)
        entry == [key |-> key, value |-> value]
    IN IF ck_holds(t, a, key)
       THEN {[table |-> ck_swap(t, a, entry), ret |-> t.buckets[a][1].value, how |-> {},
              rehashes |-> 0, ran |-> 0]}
       ELSE IF ck_holds(t, b, key)
       THEN {[table |-> ck_swap(t, b, entry), ret |-> t.buckets[b][1].value, how |-> {},
              rehashes |-> 0, ran |-> 0]}
       ELSE IF t.buckets[a] = <<>>
       THEN {[table |-> ck_fill(t, a, entry), ret |-> None, how |-> {}, rehashes |-> 0,
              ran |-> 0]}
       ELSE IF t.buckets[b] = <<>>
       THEN {[table |-> ck_fill(t, b, entry), ret |-> None, how |-> {}, rehashes |-> 0,
              ran |-> 0]}
       ELSE LET k == ck_kick(ck_swap(t, a, entry), t.buckets[a][1], FALSE, ck_loop_bound(t))
            IN IF k.done
               THEN {[table |-> k.table, ret |-> None, how |-> {"kick"}, rehashes |-> 0,
                      ran |-> k.ran]}
               ELSE IF reseeds = 0 THEN {}
               ELSE {[r EXCEPT !.how = @ \cup {"kick", "reseed"}, !.rehashes = @ + 1,
                               !.ran = k.ran] :
                        r \in UNION {ck_insert(t2, k.entry.key, k.entry.value, reseeds - 1) :
                                        t2 \in ck_rehash(k.table, 1, reseeds - 1)}}

ck_insert(t, key, value, reseeds) ==
    LET t1 == IF Len(t.buckets) = 0
              THEN [t EXCEPT !.buckets = EmptyBuckets(DefaultCapacity)]
              ELSE t
    IN IF ck_over_load(t1)
       THEN IF reseeds = 0 THEN {}
            ELSE {[r EXCEPT !.how = @ \cup {"double"}] :
                     r \in UNION {ck_place(t2, key, value, reseeds) :
                                     t2 \in ck_rehash(t1, 2, reseeds - 1)}}
       ELSE ck_place(t1, key, value, reseeds)

ck_insert_all(t, entries, reseeds) ==
    IF Len(entries) = 0 THEN {t}
    ELSE UNION {ck_insert_all(t2, Tail(entries), reseeds) :
                   t2 \in {r.table : r \in ck_insert(t, Head(entries).key,
                                                     Head(entries).value, reseeds)}}

ck_rehash(t, resize_factor, reseeds) ==
    UNION {ck_insert_all(ck_with_exact_capacity(Len(t.buckets) * resize_factor,
                                                t.load_factor, sa, sb),
                         ck_entries(t.buckets), reseeds) :
              sa \in Seeds, sb \in Seeds}

(***************************************************************************)
(* Quad-cuckoo table (quad_cuckoo_hashing.rs).  buckets is a sequence of   *)
(* buckets of bucket_size slots; hasher_vec holds one seed per hash        *)
(* function, and hash function i addresses the i-th chunk of the buckets.  *)
(***************************************************************************)
\* The arguments of with_exact_capacity: the tables of new() and of the tests
\* (4 x 4 and 2 x 2 candidate slots) scaled down to two hash functions over
\* buckets of one slot, so that a third key already finds every candidate
\* slot taken; load factor 1.0 as in with_exact_capacity(10_000, 4, 4, 1.0).
qc_config ==
    [capacity |-> 2, bucket_size |-> 1, hasher_amount |-> 2,
     load_factor |-> [num |-> 1, den |-> 1]]

\* One random seed per hash function.
qc_seed_vecs(hasher_amount) == [1..hasher_amount -> Seeds]

\* new(): Self::with_exact_capacity(0, 4, 4, 0.8).  As for the chaining
\* table the f64 comparison with 0.8 agrees with the one of the rationals.
qc_default ==
    [capacity |-> 0, bucket_size |-> 4, hasher_amount |-> 4,
     load_factor |-> [num |-> 4, den |-> 5]]

\* HashMap::with_load_factor(0.99) of tests::test_rehash_large
qc_lazy_load_factor == [num |-> 99, den |-> 100]

\* Mutation of qc_asserts: the assertion on the number of hash functions is
\* not made.
qc_asserts_no_hasher_multiple(capacity, bucket_size, hasher_amount) ==
    /\ capacity = 0 \/ capacity >= bucket_size * hasher_amount
    /\ bucket_size # 0 /\ capacity % bucket_size = 0
    /\ hasher_amount # 0

\* The three assertions of with_exact_capacity; a remainder by zero panics
\* as a failed assertion does.
qc_asserts(capacity, bucket_size, hasher_amount) ==
    /\ capacity = 0 \/ capacity >= bucket_size * hasher_amount
    /\ bucket_size # 0 /\ capacity % bucket_size = 0
    /\ hasher_amount # 0 /\ capacity % hasher_amount = 0

\* The table the constructor returns once the assertions have passed.
\* built = FALSE stands for a construction that panicked.
qc_with_exact_capacity(capacity, bucket_size, hasher_vec, load_factor) ==
    [built |-> TRUE,
     buckets |-> [b \in 1..(capacity \div bucket_size) |-> [s \in 1..bucket_size |-> <<>>]],
     bucket_size |-> bucket_size, hasher_vec |-> hasher_vec, load_factor |-> load_factor,
     length |-> 0]

qc_no_table ==
    [built |-> FALSE, buckets |-> <<>>, bucket_size |-> 0, hasher_vec |-> <<>>,
     load_factor |-> [num |-> 0, den |-> 1], length |-> 0]

qc_len(t) == t.length

qc_is_empty(t) == t.length = 0

\* slots in total: self.buckets.len() * self.buckets[0].len()
qc_slots(t) == Len(t.buckets) * Len(t.buckets[1])

\* Mutation of qc_over_load: the table counts as loaded at half the load
\* factor.
qc_over_load_at_half(t) ==
    IF Len(t.buckets) = 0
    THEN 0 >= t.load_factor.num
    ELSE 2 * t.length * t.load_factor.den >= t.load_factor.num * qc_slots(t)

qc_over_load(t) ==
    IF Len(t.buckets) = 0
    THEN 0 >= t.load_factor.num
    ELSE t.length * t.load_factor.den >= t.load_factor.num * qc_slots(t)

qc_chunk_size(t) == Len(t.buckets) \div Len(t.hasher_vec)

\* The bucket hash function i picks for key inside its own chunk.
qc_bucket(t, key, i) ==
    (i - 1) * qc_chunk_size(t) + (seeded_hash(key, t.hasher_vec[i]) % qc_chunk_size(t)) + 1

\* chunks.zip(hashers).flat_map(bucket): the candidate slots <<bucket, slot>>
\* of key in iteration order.
qc_candidates(t, key) ==
    [n \in 1..(Len(t.hasher_vec) * t.bucket_size) |->
        <<qc_bucket(t, key, ((n - 1) \div t.bucket_size) + 1), ((n - 1) % t.bucket_size) + 1>>]

qc_slot(t, c) == t.buckets[c[1]][c[2]]

\* .flatten().find(|e| e.key == key): position of the first candidate holding key
qc_found(t, key) ==
    LET c == qc_candidates(t, key)
        hits == {n \in 1..Len(c) : qc_slot(t, c[n]) # <<>> /\ qc_slot(t, c[n])[1].key = key}
    IN IF hits = {} THEN 0 ELSE SetMin(hits)

\* .find(|e| e.is_none()): position of the first empty candidate
qc_empty_spot(t, key) ==
    LET c == qc_candidates(t, key)
        free == {n \in 1..Len(c) : qc_slot(t, c[n]) = <<>>}
    IN IF free = {} THEN 0 ELSE SetMin(free)

\* .flatten().choose(rng): the occupied candidates one of which is kicked
qc_occupied(t, key) ==
    LET c == qc_candidates(t, key)
    IN {c[n] : n \in {m \in 1..Len(c) : qc_slot(t, c[m]) # <<>>}}

qc_get(t, key) ==
    IF qc_is_empty(t) \/ qc_found(t, key) = 0 THEN None
    ELSE qc_slot(t, qc_candidates(t, key)[qc_found(t, key)])[1].value

qc_remove(t, key) ==
    IF qc_is_empty(t) \/ qc_found(t, key) = 0 THEN [table |-> t, ret |-> None]
    ELSE LET c == qc_candidates(t, key)[qc_found(t, key)]
         IN [table |-> [t EXCEPT !.buckets[c[1]][c[2]] = <<>>, !.length = @ - 1],
             ret |-> qc_slot(t, c)[1].value]

qc_clear(t) ==
    [t EXCEPT !.length = 0,
              !.buckets = [b \in 1..Len(t.buckets) |-> [s \in 1..Len(t.buckets[b]) |-> <<>>]]]

\* mem::replace(slot, entry): the slot takes the entry
qc_put(t, c, entry) == [t EXCEPT !.buckets[c[1]][c[2]] = <<entry>>]

\* Mutation of qc_kicked: the loop goes on with the entry it had in hand.
qc_kicked_lost(t, c, entry) == entry

\* entry = mem::replace(kicked_entry, entry): the occupant is now in hand
qc_kicked(t, c, entry) == qc_slot(t, c)[1]

\* The live entries in the order rehash takes them out of the buckets.
qc_entries(buckets) == FlattenChains(FlattenChains(buckets))

\* One pass of the placement loop for the entry in hand: overwrite a
\* duplicate, else fill an empty spot; otherwise the pass kicks.
qc_settles(t, entry) == qc_found(t, entry.key) # 0 \/ qc_empty_spot(t, entry.key) # 0

\* Mutation of qc_settle: an empty candidate slot is looked for before a
\* duplicate.
qc_settle_in_empty_first(p) ==
    LET t == p.table
        c == qc_candidates(t, p.entry.key)
    IN IF qc_empty_spot(t, p.entry.key) # 0
       THEN [table |-> [qc_put(t, c[qc_empty_spot(t, p.entry.key)], p.entry)
                           EXCEPT !.length = @ + 1],
             ret |-> None, how |-> p.how]
       ELSE [table |-> qc_put(t, c[qc_found(t, p.entry.key)], p.entry),
             ret |-> qc_slot(t, c[qc_found(t, p.entry.key)])[1].value, how |-> p.how]

qc_settle(p) ==
    LET t == p.table
        c == qc_candidates(t, p.entry.key)
    IN IF qc_found(t, p.entry.key) # 0
       THEN [table |-> qc_put(t, c[qc_found(t, p.entry.key)], p.entry),
             ret |-> qc_slot(t, c[qc_found(t, p.entry.key)])[1].value, how |-> p.how]
       ELSE [table |-> [qc_put(t, c[qc_empty_spot(t, p.entry.key)], p.entry)
                           EXCEPT !.length = @ + 1],
             ret |-> None, how |-> p.how]

\* entry = mem::replace(kicked_entry, entry), for each entry choose can pick
qc_kicks(p) ==
    {[table |-> qc_put(p.table, c, p.entry), entry |-> qc_kicked(p.table, c, p.entry),
      how |-> p.how \cup {"kick"}] : c \in qc_occupied(p.table, p.entry.key)}

\* insert and rehash return the set of their possible outcomes, one for each
\* choice of the random seeds and of the kicked entries.  pending is the set
\* of <table, entry in hand> the loop can be in with `left` passes to go.
RECURSIVE qc_insert(_, _, _, _)
RECURSIVE qc_insert_all(_, _, _)
RECURSIVE qc_rehash(_, _, _)
RECURSIVE qc_loop(_, _, _)

qc_loop(pending, left, reseeds) ==
    IF pending = {} THEN {}
    ELSE IF left = 0
    THEN IF reseeds = 0 THEN {}
         ELSE UNION {{[r EXCEPT !.how = @ \cup p.how \cup {"reseed"}] :
                         r \in UNION {qc_insert(t2, p.entry.key, p.entry.value, reseeds - 1) :
                                         t2 \in qc_rehash(p.table, 1, reseeds - 1)}} :
                        p \in pending}
    ELSE {qc_settle(p) : p \in {q \in pending : qc_settles(q.table, q.entry)}}
         \cup qc_loop(UNION {qc_kicks(p) : p \in {q \in pending : ~qc_settles(q.table, q.entry)}},
                      left - 1, reseeds)

qc_insert(t, key, value, reseeds) ==
    LET t1 == IF Len(t.buckets) = 0
              THEN [t EXCEPT !.buckets = [b \in 1..DefaultCapacity |->
                                              [s \in 1..t.bucket_size |-> <<>>]]]
              ELSE t
        start(t2) == {[table |-> t2, entry |-> [key |-> key, value |-> value], how |-> {}]}
    IN IF qc_over_load(t1)
       THEN IF reseeds = 0 THEN {}
            ELSE {[r EXCEPT !.how = @ \cup {"double"}] :
                     r \in UNION {qc_loop(start(t2), t2.length + 1, reseeds) :
                                     t2 \in qc_rehash(t1, 2, reseeds - 1)}}
       ELSE qc_loop(start(t1), t1.length + 1, reseeds)

qc_insert_all(t, entries, reseeds) ==
    IF Len(entries) = 0 THEN {t}
    ELSE UNION {qc_insert_all(t2, Tail(entries), reseeds) :
                   t2 \in {r.table : r \in qc_insert(t, Head(entries).key,
                                                     Head(entries).value, reseeds)}}

qc_rehash(t, resize_factor, reseeds) ==
    UNION {qc_insert_all(qc_with_exact_capacity(Len(t.buckets) * t.bucket_size * resize_factor,
                                                t.bucket_size, hv, t.load_factor),
                         qc_entries(t.buckets), reseeds) :
              hv \in qc_seed_vecs(Len(t.hasher_vec))}


(***************************************************************************)
(* Resizable concurrent chaining table (chaining_hashing_concurrent.rs).   *)
(* The table is [buckets, length, load_factor]; buckets sits behind the    *)
(* structural RwLock, every chain behind its bucket RwLock, length is an   *)
(* atomic counter.  A step of a thread is one critical section or one      *)
(* atomic access: sections under the structural write lock and under a     *)
(* bucket lock are not interleaved with any step that could observe them.  *)
(***************************************************************************)
Threads == 1..MaxThreads

\* HashMap::with_load_factor(1/64): allocated lazily by the first insert and
\* over the threshold from the first entry on.
cc_lazy_load_factor == [num |-> 1, den |-> 64]

\* HashMap::with_exact_capacity(2, 1.0) of tests::test_collision_handling
cc_capacity == 2
cc_load_factor == [num |-> 1, den |-> 1]

cc_with_exact_capacity(capacity, load_factor) ==
    [buckets |-> EmptyBuckets(capacity), length |-> 0, load_factor |-> load_factor]

cc_len(t) == t.length

\* fill_factor() >= load_factor, in exact rational arithmetic
cc_over_load(t) ==
    IF Len(t.buckets) = 0
    THEN 0 >= t.load_factor.num
    ELSE t.length * t.load_factor.den >= t.load_factor.num * Len(t.buckets)

cc_index(t, key) == (calculate_hash(key) % Len(t.buckets)) + 1

\* get compares the head and then every following node.
cc_get(t, key) ==
    IF Len(t.buckets) = 0 THEN None
    ELSE LET chain == t.buckets[cc_index(t, key)]
             hits == {p \in 1..Len(chain) : chain[p].key = key}
         IN IF hits = {} THEN None ELSE chain[SetMin(hits)].value

\* Positions at which pre_locked_remove compares the key: the head; when the
\* head misses and has a successor `miss`, the walk starts at miss.next.
cc_remove_scan(chain) == {1} \cup 3..Len(chain)

cc_pre_locked_remove(t, key) ==
    IF Len(t.buckets) = 0 THEN [table |-> t, ret |-> None]
    ELSE LET idx == cc_index(t, key)
             chain == t.buckets[idx]
             hits == {p \in cc_remove_scan(chain) \cap 1..Len(chain) : chain[p].key = key}
         IN IF hits = {} THEN [table |-> t, ret |-> None]
            ELSE LET p == SetMin(hits)
                 IN [table |-> [t EXCEPT !.buckets[idx] = DropAt(chain, p),
                                         !.length = @ - 1],
                     ret |-> chain[p].value]

\* The fresh entry becomes the chain head; length.fetch_add(1)
cc_prepend(t, key, value) ==
    [t EXCEPT !.buckets[cc_index(t, key)] = <<[key |-> key, value |-> value]>> \o @,
              !.length = @ + 1]

\* Mutation of cc_needs_alloc: the write-locked re-check is left out.
cc_needs_alloc_unchecked(t) == TRUE

\* if buckets.is_empty(), re-checked under the structural write lock
cc_needs_alloc(t) == Len(t.buckets) = 0

cc_alloc(t) ==
    IF cc_needs_alloc(t) THEN [t EXCEPT !.buckets = EmptyBuckets(DefaultCapacity)] ELSE t

\* insert run by the one thread that owns the table (new_table in rehash).
RECURSIVE cc_insert(_, _, _)
RECURSIVE cc_insert_all(_, _)
RECURSIVE cc_rehash(_)

cc_insert(t, key, value) ==
    LET t1 == IF Len(t.buckets) = 0 THEN cc_alloc(t) ELSE t
        t2 == IF cc_over_load(t1) THEN cc_rehash(t1) ELSE t1
        old == cc_pre_locked_remove(t2, key)
    IN [table |-> cc_prepend(old.table, key, value), ret |-> old.ret]

cc_insert_all(t, entries) ==
    IF Len(entries) = 0 THEN t
    ELSE cc_insert_all(cc_insert(t, Head(entries).key, Head(entries).value).table,
                       Tail(entries))

\* Mutation of cc_rehash_skips: the load is not checked again under the
\* write lock.
cc_rehash_never_skips(t) == FALSE

\* Under the structural write lock: nothing to do when the load is below the
\* threshold again; else the entries go into a table twice the size, whose
\* bucket array is swapped in.  self.length is left as it is.
cc_rehash_skips(t) == ~cc_over_load(t)

cc_rehash(t) ==
    IF cc_rehash_skips(t) THEN t
    ELSE [t EXCEPT !.buckets =
              cc_insert_all(cc_with_exact_capacity(Len(t.buckets) * 2, t.load_factor),
                            FlattenChains(t.buckets)).buckets]

\* Number of entries the chains hold for key.
cc_copies(t, key) ==
    Len(SelectSeq(FlattenChains(t.buckets), LAMBDA e : e.key = key))

(***************************************************************************)
(* Fixed-capacity concurrent chaining table                                *)
(* (chaining_hashing_concurrent_optimized.rs).  The table is its bucket    *)
(* array, every chain behind its bucket RwLock; there is no length and no  *)
(* growth.  built = FALSE stands for a construction that panicked.         *)
(***************************************************************************)
\* HashMap::with_exact_capacity(2) of tests::test_collision_handling
fx_capacity == 2

\* Self::with_exact_capacity(capacity * 8)
fx_fan_out == 8

fx_with_exact_capacity(capacity) == [built |-> TRUE, buckets |-> EmptyBuckets(capacity)]

\* Mutation of fx_capacity_ok: the assertion is left out.
fx_capacity_ok_unasserted(capacity) == TRUE

\* assert!(capacity > 0)
fx_capacity_ok(capacity) == capacity > 0

fx_with_capacity(capacity) ==
    IF fx_capacity_ok(capacity)
    THEN fx_with_exact_capacity(capacity * fx_fan_out)
    ELSE [built |-> FALSE, buckets |-> <<>>]

fx_index(t, key) == (calculate_hash(key) % Len(t.buckets)) + 1

\* get compares the head and then every following node.
fx_get(t, key) ==
    LET chain == t.buckets[fx_index(t, key)]
        hits == {p \in 1..Len(chain) : chain[p].key = key}
    IN IF hits = {} THEN None ELSE chain[SetMin(hits)].value

\* Positions at which remove compares the key: the head; when the head misses
\* and has a successor `miss`, the walk starts at miss.next.
fx_remove_scan(chain) == {1} \cup 3..Len(chain)

fx_remove(t, key) ==
    LET idx == fx_index(t, key)
        chain == t.buckets[idx]
        hits == {p \in fx_remove_scan(chain) \cap 1..Len(chain) : chain[p].key = key}
    IN IF hits = {} THEN [table |-> t, ret |-> None]
       ELSE [table |-> [t EXCEPT !.buckets[idx] = DropAt(chain, SetMin(hits))],
             ret |-> chain[SetMin(hits)].value]

\* Mutation of fx_prepend: the fresh entry replaces the chain, *bucket =
\* Some(entry) whether or not the bucket had a first entry.
fx_prepend_drops_chain(t, key, value) ==
    [t EXCEPT !.buckets[fx_index(t, key)] = <<[key |-> key, value |-> value]>>]

\* The fresh entry becomes the chain head, the old head its next.
fx_prepend(t, key, value) ==
    [t EXCEPT !.buckets[fx_index(t, key)] = <<[key |-> key, value |-> value]>> \o @]

\* Number of entries the chains hold for key.
fx_copies(t, key) ==
    Len(SelectSeq(FlattenChains(t.buckets), LAMBDA e : e.key = key))

VARIABLES
    chaining,   \* the chaining table: [buckets, length, load_factor]
    ch_last,    \* the last call on it: operation, arguments, result, table before
    ch_trace,   \* the calls so far: keys ever inserted, and whether all calls were inserts
    open,       \* the open-addressing table: [buckets, length, tomb_count, load_factor]
    oa_last,    \* the last call on it: operation, arguments, result, table before
    oa_trace,   \* the calls so far: keys inserted and cleared
    cuckoo,     \* the cuckoo table: [buckets, length, load_factor, hasher_a, hasher_b]
    ck_last,    \* the last call on it: operation, arguments, result, path taken
    quad,       \* the quad-cuckoo table: [built, buckets, bucket_size, hasher_vec,
                \* load_factor, length]
    qc_built,   \* the constructor call that built it, and its arguments
    qc_last,    \* the last call on it: operation, key, result
    qc_trace,   \* the calls so far: values of the keys inserted once each, paths taken
    concurrent, \* the concurrent chaining table: [buckets, length, load_factor]
    cc_readers, \* the threads holding the structural read lock
    cc_thread,  \* per thread: the step its insert call is at, and the call's locals
    cc_trace,   \* the calls so far: how many, keys and values inserted, paths taken
    fixed,      \* the fixed-capacity table: [built, buckets]
    fx_thread,  \* per thread: the step its insert call is at, and the call's locals
    fx_last,    \* the last call that returned: operation, arguments, result
    fx_trace,   \* the calls so far: how many, by whom, overlapping or not, entries inserted
    lk_thread,  \* per thread, lock by lock: the call it is in, its step, locals, locks held
    lk_last,    \* the last get or len that returned there: operation, key, result
    lk_trace,   \* the calls so far there: how many, any remove or clear, paths taken
    ps_trace    \* the pre-sized tables: capacity built with, keys inserted one by one

ch_vars == <<chaining, ch_last, ch_trace>>
oa_vars == <<open, oa_last, oa_trace>>
ck_vars == <<cuckoo, ck_last>>
qc_vars == <<quad, qc_built, qc_last, qc_trace>>
cc_vars == <<concurrent, cc_readers, cc_thread, cc_trace>>
fx_vars == <<fixed, fx_thread, fx_last, fx_trace>>
lk_vars == <<lk_thread, lk_last, lk_trace>>
ps_vars == <<ps_trace>>
vars == <<ch_vars, oa_vars, ck_vars, qc_vars, cc_vars, fx_vars, lk_vars, ps_vars>>

\* The variables of the engines an action of one engine leaves alone.
ch_others == <<oa_vars, ck_vars, qc_vars, cc_vars, fx_vars, lk_vars, ps_vars>>
oa_others == <<ch_vars, ck_vars, qc_vars, cc_vars, fx_vars, lk_vars, ps_vars>>
ck_others == <<ch_vars, oa_vars, qc_vars, cc_vars, fx_vars, lk_vars, ps_vars>>
qc_others == <<ch_vars, oa_vars, ck_vars, cc_vars, fx_vars, lk_vars, ps_vars>>
cc_others == <<ch_vars, oa_vars, ck_vars, qc_vars, fx_vars, lk_vars, ps_vars>>
fx_others == <<ch_vars, oa_vars, ck_vars, qc_vars, cc_vars, lk_vars, ps_vars>>
lk_frame == <<cc_readers, cc_thread, cc_trace, ch_vars, oa_vars, ck_vars, qc_vars, fx_vars, ps_vars>>

ch_Init ==
    /\ chaining = ch_with_exact_capacity(ch_capacity, ch_load_factor)
    /\ ch_last = [op |-> "new", key |-> 0, value |-> None, ret |-> None, fresh |-> FALSE,
                  pre |-> ch_with_exact_capacity(ch_capacity, ch_load_factor)]
    /\ ch_trace = [inserted |-> {}, inserts_only |-> TRUE]

\* Before any call the table is HashMap::with_capacity(capacity) instead.
ch_New ==
    \E capacity \in 1..MaxCapacity :
        /\ ch_last.op = "new"
        /\ chaining' = ch_with_capacity(capacity)
        /\ ch_last' = [op |-> "with_capacity", key |-> capacity, value |-> None,
                       ret |-> None, fresh |-> FALSE, pre |-> chaining]
        /\ UNCHANGED <<ch_trace, ch_others>>

ch_Insert ==
    \E key \in Keys, value \in Payloads :
        /\ chaining.length < MaxLen
        /\ LET r == ch_insert(chaining, key, value)
           IN /\ chaining' = r.table
              /\ ch_last' = [op |-> "insert", key |-> key, value |-> value,
                             ret |-> r.ret, fresh |-> key \notin ch_trace.inserted,
                             pre |-> chaining]
              /\ ch_trace' = [ch_trace EXCEPT !.inserted = @ \cup {key}]
              /\ UNCHANGED ch_others

ch_Remove ==
    \E key \in Keys :
        LET r == ch_remove(chaining, key)
        IN /\ chaining' = r.table
           /\ ch_last' = [op |-> "remove", key |-> key, value |-> None,
                          ret |-> r.ret, fresh |-> FALSE, pre |-> chaining]
           /\ ch_trace' = [ch_trace EXCEPT !.inserts_only = FALSE]
           /\ UNCHANGED ch_others

ch_Get ==
    \E key \in Keys :
        /\ chaining' = chaining
        /\ ch_last' = [op |-> "get", key |-> key, value |-> None,
                       ret |-> ch_get(chaining, key), fresh |-> FALSE, pre |-> chaining]
        /\ ch_trace' = ch_trace
        /\ UNCHANGED ch_others

ch_Clear ==
    /\ chaining' = ch_clear(chaining)
    /\ ch_last' = [op |-> "clear", key |-> 0, value |-> None, ret |-> None,
                   fresh |-> FALSE, pre |-> chaining]
    /\ ch_trace' = [ch_trace EXCEPT !.inserts_only = FALSE]
    /\ UNCHANGED ch_others

\* oa_trace.since holds the keys inserted since the last clear, cleared those
\* inserted before a clear and not since.
oa_Init ==
    /\ open = oa_with_exact_capacity(oa_capacity, oa_load_factor)
    /\ oa_last = [op |-> "new", key |-> 0, value |-> None, ret |-> None,
                  pre |-> oa_with_exact_capacity(oa_capacity, oa_load_factor)]
    /\ oa_trace = [since |-> {}, cleared |-> {}]

\* Before any call the table is HashMap::with_capacity(capacity) instead.
oa_NewOf(capacity) ==
    /\ oa_last.op = "new"
    /\ open' = oa_with_capacity(capacity)
    /\ oa_last' = [op |-> "with_capacity", key |-> capacity, value |-> None, ret |-> None,
                   pre |-> open]
    /\ oa_trace' = oa_trace

\* Growth is cut off once the slots number more than MaxBuckets and more
\* than the table was built with.
oa_InsertOf(key, value) ==
    /\ oa_last.op # "insert_spins"
    /\ ~oa_insert_spins(open, key)
    /\ \/ Len(open.buckets) <= MaxBuckets
       \/ Len(open.buckets) <= ps_trace.built * oa_fan_out
    /\ LET r == oa_insert(open, key, value)
       IN /\ open' = r.table
          /\ oa_last' = [op |-> "insert", key |-> key, value |-> value,
                         ret |-> r.ret, pre |-> open]
    /\ oa_trace' = [since |-> oa_trace.since \cup {key}, cleared |-> oa_trace.cleared \ {key}]

oa_Insert == \E key \in Keys, value \in Payloads : oa_InsertOf(key, value) /\ UNCHANGED oa_others

\* An insert whose loop never breaks does not return, and the table it
\* borrows mutably takes no other call.
oa_InsertSpins ==
    \E key \in Keys :
        /\ oa_last.op # "insert_spins"
        /\ oa_insert_spins(open, key)
        /\ oa_last' = [op |-> "insert_spins", key |-> key, value |-> None, ret |-> None,
                       pre |-> open]
        /\ UNCHANGED <<open, oa_trace, oa_others>>

\* Before any call the table is built with another load factor instead:
\* with_load_factor(f) for a whole f, at the capacity of oa_Init.
oa_WithLoadFactor ==
    \E n \in 1..MaxLoad :
        /\ oa_last.op = "new"
        /\ open' = oa_with_exact_capacity(oa_capacity, [num |-> n, den |-> 1])
        /\ oa_last' = [op |-> "with_load_factor", key |-> n, value |-> None, ret |-> None,
                       pre |-> open]
        /\ UNCHANGED <<oa_trace, oa_others>>

oa_Remove ==
    \E key \in Keys :
        LET r == oa_remove(open, key)
        IN /\ oa_last.op # "insert_spins"
           /\ open' = r.table
           /\ oa_last' = [op |-> "remove", key |-> key, value |-> None,
                          ret |-> r.ret, pre |-> open]
           /\ oa_trace' = oa_trace
           /\ UNCHANGED oa_others

oa_Clear ==
    /\ oa_last.op # "insert_spins"
    /\ open' = oa_clear(open)
    /\ oa_last' = [op |-> "clear", key |-> 0, value |-> None, ret |-> None, pre |-> open]
    /\ oa_trace' = [since |-> {}, cleared |-> oa_trace.cleared \cup oa_trace.since]
    /\ UNCHANGED oa_others

\* The seeds of the two hashers are drawn at random at construction; the
\* model starts from the draw under which all keys collide in both halves.
ck_Init ==
    /\ cuckoo = ck_with_exact_capacity(ck_capacity, ck_load_factor, 0, 0)
    /\ ck_last = [op |-> "new", key |-> 0, value |-> None, ret |-> None, how |-> {},
                  absent |-> FALSE, rehashes |-> 0, ran |-> 0]

\* Before any call the table is HashMap::with_capacity(capacity) instead,
\* with any draw of the two seeds.
ck_NewOf(capacity) ==
    \E seed_a \in Seeds, seed_b \in Seeds :
        /\ ck_last.op = "new"
        /\ cuckoo' = ck_with_capacity(capacity, seed_a, seed_b)
        /\ ck_last' = [op |-> "with_capacity", key |-> capacity, value |-> None,
                       ret |-> None, how |-> {}, absent |-> FALSE, rehashes |-> 0, ran |-> 0]

\* The public constructors: with_capacity(capacity), which new() is with
\* capacity 0, and with_load_factor(load_factor) for the load factors of
\* the tests and one under which three keys double the lazily allocated
\* table.
ck_WithCapacity == \E capacity \in 0..MaxCapacity : ck_NewOf(capacity) /\ UNCHANGED ck_others

ck_WithLoadFactor ==
    \E load_factor \in {ck_load_factor, [num |-> 1, den |-> 2 * DefaultCapacity]} :
      \E seed_a \in Seeds, seed_b \in Seeds :
        /\ ck_last.op = "new"
        /\ cuckoo' = ck_with_exact_capacity(0, load_factor, seed_a, seed_b)
        /\ ck_last' = [ck_last EXCEPT !.op = "with_load_factor"]
        /\ UNCHANGED ck_others

ck_InsertOf(key, value) ==
    \E r \in ck_insert(cuckoo, key, value, MaxRetry) :
        /\ cuckoo' = r.table
        /\ ck_last' = [op |-> "insert", key |-> key, value |-> value, ret |-> r.ret,
                       how |-> r.how, absent |-> ck_get(cuckoo, key) = None,
                       rehashes |-> r.rehashes, ran |-> r.ran]

ck_Insert == \E key \in Keys, value \in Payloads : ck_InsertOf(key, value) /\ UNCHANGED ck_others

ck_Remove ==
    \E key \in Keys :
        LET r == ck_remove(cuckoo, key)
        IN /\ cuckoo' = r.table
           /\ ck_last' = [op |-> "remove", key |-> key, value |-> None, ret |-> r.ret,
                          how |-> {}, absent |-> ck_get(cuckoo, key) = None,
                          rehashes |-> 0, ran |-> 0]
           /\ UNCHANGED ck_others

ck_Clear ==
    /\ cuckoo' = ck_clear(cuckoo)
    /\ ck_last' = [op |-> "clear", key |-> 0, value |-> None, ret |-> None, how |-> {},
                   absent |-> FALSE, rehashes |-> 0, ran |-> 0]
    /\ UNCHANGED ck_others

\* qc_trace.distinct holds while every call so far was an insert of a key
\* not inserted before; inserted then maps those keys to their values.
qc_Init ==
    /\ quad = qc_with_exact_capacity(qc_config.capacity, qc_config.bucket_size,
                                     [i \in 1..qc_config.hasher_amount |-> 0],
                                     qc_config.load_factor)
    /\ qc_built = [op |-> "with_exact_capacity", capacity |-> qc_config.capacity,
                   bucket_size |-> qc_config.bucket_size,
                   hasher_amount |-> qc_config.hasher_amount]
    /\ qc_last = [op |-> "new", key |-> 0, ret |-> None]
    /\ qc_trace = [distinct |-> TRUE, inserted |-> {}, how |-> {}]

\* Before any call the table is the one of another constructor call, with
\* any draw of the seeds: new(), with_load_factor(0.99), or
\* with_exact_capacity with drawn arguments, which may panic.
qc_NewOf(op, capacity, bucket_size, hasher_amount, load_factor) ==
    /\ qc_last.op = "new"
    /\ qc_built' = [op |-> op, capacity |-> capacity, bucket_size |-> bucket_size,
                    hasher_amount |-> hasher_amount]
    /\ qc_last' = [op |-> op, key |-> 0, ret |-> None]
    /\ IF qc_asserts(capacity, bucket_size, hasher_amount)
       THEN \E hasher_vec \in qc_seed_vecs(hasher_amount) :
               quad' = qc_with_exact_capacity(capacity, bucket_size, hasher_vec, load_factor)
       ELSE quad' = qc_no_table
    /\ UNCHANGED <<qc_trace, qc_others>>

qc_WithExactCapacityUpTo(slots) ==
    \E capacity \in 1..slots, bucket_size \in 0..MaxShape, hasher_amount \in 0..MaxShape :
        qc_NewOf("with_exact_capacity", capacity, bucket_size, hasher_amount,
                 qc_config.load_factor)

qc_WithExactCapacity == qc_WithExactCapacityUpTo(MaxSlots)

qc_New ==
    \/ qc_NewOf("new", qc_default.capacity, qc_default.bucket_size,
                qc_default.hasher_amount, qc_default.load_factor)
    \/ qc_NewOf("with_load_factor", qc_default.capacity, qc_default.bucket_size,
                qc_default.hasher_amount, qc_lazy_load_factor)
    \/ qc_WithExactCapacityUpTo(MaxSlots + MaxShape)

qc_Insert ==
    /\ quad.built
    /\ \E key \in Keys :
      LET value == KeyPayload(key) IN
        \E r \in qc_insert(quad, key, value, MaxReseed) :
            /\ quad' = r.table
            /\ qc_last' = [op |-> "insert", key |-> key, ret |-> r.ret]
            /\ qc_trace' = IF qc_trace.distinct /\ key \notin {e.key : e \in qc_trace.inserted}
                           THEN [distinct |-> TRUE,
                                 inserted |-> qc_trace.inserted \cup
                                                 {[key |-> key, value |-> value]},
                                 how |-> qc_trace.how \cup r.how]
                           ELSE [distinct |-> FALSE, inserted |-> {}, how |-> {}]
            /\ UNCHANGED <<qc_built, qc_others>>

\* debug_assert_eq!(self.buckets.len() % self.hasher_vec.len(), 0): in a
\* build with debug assertions insert panics here, after the lazy
\* allocation and the growth check, and the table is lost in the unwinding.
qc_insert_panics(t) ==
    /\ Len(t.buckets) > 0
    /\ ~qc_over_load(t)
    /\ Len(t.buckets) % Len(t.hasher_vec) # 0

qc_InsertPanics ==
    /\ quad.built
    /\ qc_insert_panics(quad)
    /\ \E key \in Keys : qc_last' = [op |-> "insert_panics", key |-> key, ret |-> None]
    /\ quad' = qc_no_table
    /\ UNCHANGED <<qc_built, qc_trace, qc_others>>

qc_Remove ==
    \E key \in Keys :
        LET r == qc_remove(quad, key)
        IN /\ quad' = r.table
           /\ qc_last' = [op |-> "remove", key |-> key, ret |-> r.ret]
           /\ qc_trace' = [distinct |-> FALSE, inserted |-> {}, how |-> {}]
           /\ UNCHANGED <<qc_built, qc_others>>

qc_Clear ==
    /\ quad' = qc_clear(quad)
    /\ qc_last' = [op |-> "clear", key |-> 0, ret |-> None]
    /\ qc_trace' = [distinct |-> FALSE, inserted |-> {}, how |-> {}]
    /\ UNCHANGED <<qc_built, qc_others>>

cc_idle == [pc |-> "idle", key |-> 0, value |-> None, old |-> None]

cc_Init ==
    /\ concurrent = cc_with_exact_capacity(0, cc_lazy_load_factor)
    /\ cc_readers = {}
    /\ cc_thread = [th \in Threads |-> cc_idle]
    /\ cc_trace = [calls |-> 0, inserted |-> {}, distinct |-> TRUE, inserts_only |-> TRUE,
                   how |-> {}]

\* Before any call the threads are handed the pre-sized table instead.
cc_New ==
    /\ cc_trace.calls = 0
    /\ concurrent = cc_with_exact_capacity(0, cc_lazy_load_factor)
    /\ concurrent' = cc_with_exact_capacity(cc_capacity, cc_load_factor)
    /\ UNCHANGED <<cc_readers, cc_thread, cc_trace, cc_others>>

\* A thread calls insert(key, value).
cc_Call ==
    \E th \in Threads, key \in Keys :
      LET value == KeyPayload(key) IN
        /\ cc_thread[th].pc = "idle"
        /\ cc_trace.calls < MaxCalls
        /\ cc_thread' = [cc_thread EXCEPT ![th] =
                            [pc |-> "is_empty", key |-> key, value |-> value, old |-> None]]
        /\ cc_trace' = [cc_trace EXCEPT
                            !.calls = @ + 1,
                            !.inserted = @ \cup {[key |-> key, value |-> value]},
                            !.distinct = @ /\ key \notin {e.key : e \in cc_trace.inserted}]
        /\ UNCHANGED <<concurrent, cc_readers, cc_others>>

\* A thread calls remove(key): let buckets = self.buckets.read() and
\* pre_locked_remove(..), one critical section of the bucket lock, and the
\* return.
cc_RemoveCall ==
    \E th \in Threads, key \in Keys :
        /\ cc_thread[th].pc = "idle"
        /\ cc_trace.calls < MaxCalls
        /\ concurrent' = cc_pre_locked_remove(concurrent, key).table
        /\ cc_trace' = [cc_trace EXCEPT !.calls = @ + 1, !.distinct = FALSE,
                                        !.inserts_only = FALSE]
        /\ UNCHANGED <<cc_readers, cc_thread, cc_others>>

\* if self.buckets.read().is_empty()
cc_IsEmpty ==
    \E th \in Threads :
        /\ cc_thread[th].pc = "is_empty"
        /\ cc_thread' = [cc_thread EXCEPT ![th].pc =
                            IF Len(concurrent.buckets) = 0 THEN "alloc" ELSE "fill_factor"]
        /\ UNCHANGED <<concurrent, cc_readers, cc_trace, cc_others>>

\* let mut buckets = self.buckets.write(); allocate if still empty
cc_Alloc ==
    \E th \in Threads :
        /\ cc_thread[th].pc = "alloc"
        /\ cc_readers = {}
        /\ concurrent' = cc_alloc(concurrent)
        /\ cc_thread' = [cc_thread EXCEPT ![th].pc = "fill_factor"]
        /\ cc_trace' = [cc_trace EXCEPT !.how = @ \cup {"alloc"}]
        /\ UNCHANGED <<cc_readers, cc_others>>

\* if self.fill_factor() >= self.load_factor
cc_FillFactor ==
    \E th \in Threads :
        /\ cc_thread[th].pc = "fill_factor"
        /\ cc_thread' = [cc_thread EXCEPT ![th].pc =
                            IF cc_over_load(concurrent) THEN "rehash" ELSE "remove"]
        /\ UNCHANGED <<concurrent, cc_readers, cc_trace, cc_others>>

\* self.rehash(), all of it under the structural write lock
cc_Rehash ==
    \E th \in Threads :
        /\ cc_thread[th].pc = "rehash"
        /\ cc_readers = {}
        /\ concurrent' = cc_rehash(concurrent)
        /\ cc_thread' = [cc_thread EXCEPT ![th].pc = "remove"]
        /\ cc_trace' = [cc_trace EXCEPT !.how =
                            @ \cup IF cc_rehash_skips(concurrent) THEN {"skip"} ELSE {"rehash"}]
        /\ UNCHANGED <<cc_readers, cc_others>>

\* let buckets = self.buckets.read(), held until insert returns, and
\* let old = pre_locked_remove(..), one critical section of the bucket lock
cc_Remove ==
    \E th \in Threads :
        /\ cc_thread[th].pc = "remove"
        /\ LET r == cc_pre_locked_remove(concurrent, cc_thread[th].key)
           IN /\ concurrent' = r.table
              /\ cc_thread' = [cc_thread EXCEPT ![th].pc = "prepend", ![th].old = r.ret]
        /\ cc_readers' = cc_readers \cup {th}
        /\ UNCHANGED <<cc_trace, cc_others>>

\* buckets[index].write(), the new head, fetch_add, and the return, which
\* drops the bucket lock and the structural read lock
cc_Prepend ==
    \E th \in Threads :
        /\ cc_thread[th].pc = "prepend"
        /\ concurrent' = cc_prepend(concurrent, cc_thread[th].key, cc_thread[th].value)
        /\ cc_readers' = cc_readers \ {th}
        /\ cc_thread' = [cc_thread EXCEPT ![th] = cc_idle]
        /\ UNCHANGED <<cc_trace, cc_others>>

(***************************************************************************)
(* The resizable concurrent table at the level of its locks.  A lock a     *)
(* thread holds is [name, index, mode]: "buckets" is the structural        *)
(* RwLock around the bucket array and "bucket" the RwLock of one bucket;   *)
(* "new_buckets" and "new_bucket" are those of the new_table of a rehash   *)
(* in progress.  A step is what a thread does from one lock() call to the  *)
(* next blocking lock() call or guard drop.                                *)
(***************************************************************************)
lk_lock(name, index, mode) == [name |-> name, index |-> index, mode |-> mode]

lk_held_by_any == UNION {lk_thread[th].held : th \in Threads}

\* RwLock::read() returns once no thread holds the lock for write.
lk_free_to_read(name, index) ==
    \A l \in lk_held_by_any : ~(l.name = name /\ l.index = index /\ l.mode = "write")

\* Mutation of lk_free_to_write: readers do not keep a writer out.
lk_free_to_write_among_readers(name, index) == lk_free_to_read(name, index)

\* RwLock::write() returns once no thread holds the lock at all.
lk_free_to_write(name, index) ==
    \A l \in lk_held_by_any : ~(l.name = name /\ l.index = index)

\* Mutation of lk_unlock: the guard is forgotten and the lock stays held.
lk_unlock_forgotten(held, locks) == held

\* The guards in `locks` go out of scope.
lk_unlock(held, locks) == held \ locks

\* Mutation of lk_end_of_body: the old bucket stays locked.
lk_end_of_body_kept(held, index) == held

\* End of the body of `for bucket in buckets.iter()`: the guard of
\* let bucket = &mut *bucket.write() is dropped.
lk_end_of_body(held, index) == held \ {lk_lock("bucket", index, "write")}

\* The locks of the table itself, and the bucket locks, among `held`.
lk_of_table(held) == {l \in held : l.name \in {"buckets", "bucket"}}
lk_bucket_locks(held) == {l \in held : l.name \in {"bucket", "new_bucket"}}

lk_idle ==
    [op |-> "none", pc |-> "idle", key |-> 0, value |-> None, old |-> None,
     had |-> None, before |-> 0, held |-> {},
     new_table |-> cc_with_exact_capacity(0, cc_lazy_load_factor), index |-> 0,
     pending |-> <<>>]

\* Number of keys get finds in the table.
lk_present(t) == Cardinality({k \in Keys : cc_get(t, k) # None})

\* The threads that are inside insert(key, ..) of a key that was present when
\* the call began.
lk_overwriting(key) ==
    {th \in Threads : /\ lk_thread[th].op = "insert"
                      /\ lk_thread[th].key = key
                      /\ lk_thread[th].had # None}

lk_Init ==
    /\ lk_thread = [th \in Threads |-> lk_idle]
    /\ lk_last = [op |-> "new", key |-> 0, ret |-> None, overwrite |-> FALSE, floor |-> 0]
    /\ lk_trace = [calls |-> 0, removes |-> FALSE, how |-> {}]

\* The keys of the calls: two keys, which never share a bucket.
lk_keys == {0, MaxKey}

\* A thread calls insert(key, value), get(key), remove(key) or clear().  had
\* and before are what get(key) returns and the number of keys present when
\* an insert begins.
lk_CallOn(th, keys) ==
    \E op \in {"insert", "get", "remove", "clear"}, key \in keys :
        /\ lk_thread[th].pc = "idle"
        /\ lk_trace.calls < MaxCalls
        /\ op = "clear" => key = 0
        /\ lk_thread' = [lk_thread EXCEPT ![th] =
              [lk_idle EXCEPT !.op = op,
                              !.pc = CASE op = "insert" -> "is_empty"
                                       [] op = "clear" -> "clear"
                                       [] OTHER -> "read",
                              !.key = key,
                              !.value = IF op = "insert" THEN KeyPayload(key) ELSE None,
                              !.had = IF op = "insert" THEN cc_get(concurrent, key) ELSE None,
                              !.before = IF op = "insert" THEN lk_present(concurrent) ELSE 0]]
        /\ lk_trace' = [lk_trace EXCEPT !.calls = @ + 1,
                                        !.removes = @ \/ op \in {"remove", "clear"}]
        /\ UNCHANGED <<concurrent, lk_last, lk_frame>>

lk_Call(th) == lk_CallOn(th, lk_keys)

\* len(): self.length.load(SeqCst), no lock taken.  floor is the largest
\* number of keys that were present when an overwriting insert still in
\* progress began.
lk_Len(th) ==
    /\ lk_thread[th].pc = "idle"
    /\ lk_trace.calls < MaxCalls
    /\ lk_last' = [op |-> "len", key |-> 0, ret |-> cc_len(concurrent), overwrite |-> FALSE,
                   floor |-> SetMax({0} \cup {lk_thread[o].before :
                                                 o \in UNION {lk_overwriting(k) : k \in lk_keys}})]
    /\ lk_trace' = [lk_trace EXCEPT !.calls = @ + 1]
    /\ UNCHANGED <<concurrent, lk_thread, lk_frame>>

\* if self.buckets.read().is_empty(): the read guard is a temporary of the
\* condition and is dropped before the block is entered.
lk_IsEmpty(th) ==
    /\ lk_thread[th].pc = "is_empty"
    /\ lk_free_to_read("buckets", 0)
    /\ lk_thread' = [lk_thread EXCEPT ![th].pc =
                        IF Len(concurrent.buckets) = 0 THEN "alloc" ELSE "fill_factor"]
    /\ UNCHANGED <<concurrent, lk_last, lk_trace, lk_frame>>

\* let mut buckets = self.buckets.write(); allocate if still empty; the
\* guard is dropped at the end of the block.
lk_Alloc(th) ==
    /\ lk_thread[th].pc = "alloc"
    /\ lk_free_to_write("buckets", 0)
    /\ concurrent' = cc_alloc(concurrent)
    /\ lk_thread' = [lk_thread EXCEPT ![th].pc = "fill_factor"]
    /\ lk_trace' = [lk_trace EXCEPT !.how = @ \cup {"alloc"}]
    /\ UNCHANGED <<lk_last, lk_frame>>

\* if self.fill_factor() >= self.load_factor: fill_factor takes and drops
\* the structural read lock.
lk_FillFactor(th) ==
    /\ lk_thread[th].pc = "fill_factor"
    /\ lk_free_to_read("buckets", 0)
    /\ lk_thread' = [lk_thread EXCEPT ![th].pc =
                        IF cc_over_load(concurrent) THEN "rehash" ELSE "read"]
    /\ UNCHANGED <<concurrent, lk_last, lk_trace, lk_frame>>

\* for bucket in buckets.iter(): the first bucket from i on that holds a
\* chain, Len + 1 when there is none.  The body of the loop locks, finds
\* None and unlocks each empty bucket on the way.
lk_next_chain(t, i) ==
    SetMin({j \in i..Len(t.buckets) : t.buckets[j] # <<>>} \cup {Len(t.buckets) + 1})

lk_loop_pc(t, i) ==
    IF lk_next_chain(t, i) > Len(t.buckets) THEN "rehash_swap" ELSE "rehash_bucket"

\* rehash: let buckets = &mut *self.buckets.write(), the re-check of the
\* load, and either the return or the empty new_table and the loop.
lk_RehashLock(th) ==
    /\ lk_thread[th].pc = "rehash"
    /\ lk_free_to_write("buckets", 0)
    /\ IF cc_rehash_skips(concurrent)
       THEN /\ lk_thread' = [lk_thread EXCEPT ![th].pc = "read"]
            /\ lk_trace' = [lk_trace EXCEPT !.how = @ \cup {"skip"}]
       ELSE /\ lk_thread' = [lk_thread EXCEPT
                ![th].pc = lk_loop_pc(concurrent, 1),
                ![th].held = @ \cup {lk_lock("buckets", 0, "write")},
                ![th].index = lk_next_chain(concurrent, 1),
                ![th].new_table = cc_with_exact_capacity(Len(concurrent.buckets) * 2,
                                                         concurrent.load_factor)]
            /\ lk_trace' = [lk_trace EXCEPT !.how = @ \cup {"rehash"}]
    /\ UNCHANGED <<concurrent, lk_last, lk_frame>>

\* let bucket = &mut *bucket.write(); bucket.take() of a bucket that holds
\* a chain.
lk_RehashBucket(th) ==
    LET i == lk_thread[th].index
    IN /\ lk_thread[th].pc = "rehash_bucket"
       /\ lk_free_to_write("bucket", i)
       /\ concurrent' = [concurrent EXCEPT !.buckets[i] = <<>>]
       /\ lk_thread' = [lk_thread EXCEPT
             ![th].pc = "rehash_insert",
             ![th].held = @ \cup {lk_lock("bucket", i, "write")},
             ![th].pending = concurrent.buckets[i]]
       /\ UNCHANGED <<lk_last, lk_trace, lk_frame>>

\* new_table.insert(entry.key, entry.value) up to its second
\* buckets[index].write(): the growth check and pre_locked_remove on the
\* table only this thread can reach, then the locks of the prepend.
lk_RehashInsert(th) ==
    LET entry == Head(lk_thread[th].pending)
        t1 == lk_thread[th].new_table
        t2 == IF cc_over_load(t1) THEN cc_rehash(t1) ELSE t1
        t3 == cc_pre_locked_remove(t2, entry.key).table
    IN /\ lk_thread[th].pc = "rehash_insert"
       /\ lk_thread' = [lk_thread EXCEPT
             ![th].pc = "rehash_prepend",
             ![th].new_table = t3,
             ![th].held = @ \cup {lk_lock("new_buckets", 0, "read"),
                                  lk_lock("new_bucket", cc_index(t3, entry.key), "write")}]
       /\ UNCHANGED <<concurrent, lk_last, lk_trace, lk_frame>>

\* The prepend of new_table.insert and its return; after the last node of
\* the chain the body of the loop over the old buckets ends.
lk_RehashPrepend(th) ==
    LET entry == Head(lk_thread[th].pending)
        rest == Tail(lk_thread[th].pending)
        i == lk_thread[th].index
        held == lk_unlock(lk_thread[th].held,
                          {l \in lk_thread[th].held : l.name \in {"new_buckets", "new_bucket"}})
    IN /\ lk_thread[th].pc = "rehash_prepend"
       /\ lk_thread' = [lk_thread EXCEPT
             ![th].new_table = cc_prepend(@, entry.key, entry.value),
             ![th].pending = rest,
             ![th].pc = IF rest # <<>> THEN "rehash_insert"
                        ELSE lk_loop_pc(concurrent, i + 1),
             ![th].index = IF rest # <<>> THEN i ELSE lk_next_chain(concurrent, i + 1),
             ![th].held = IF rest # <<>> THEN held ELSE lk_end_of_body(held, i)]
       /\ UNCHANGED <<concurrent, lk_last, lk_trace, lk_frame>>

\* let new_buckets = &mut *new_table.buckets.write(); mem::swap(buckets,
\* new_buckets); rehash returns and its guards are dropped.
lk_RehashSwap(th) ==
    /\ lk_thread[th].pc = "rehash_swap"
    /\ concurrent' = [concurrent EXCEPT !.buckets = lk_thread[th].new_table.buckets]
    /\ lk_thread' = [lk_thread EXCEPT
          ![th].pc = "read",
          ![th].held = lk_unlock(@, {lk_lock("buckets", 0, "write")}),
          ![th].new_table = lk_idle.new_table,
          ![th].index = 0]
    /\ UNCHANGED <<lk_last, lk_trace, lk_frame>>

\* let buckets = self.buckets.read() of insert, get and remove; get and
\* pre_locked_remove return None at once when the bucket array is empty.
lk_Read(th) ==
    /\ lk_thread[th].pc = "read"
    /\ lk_free_to_read("buckets", 0)
    /\ IF Len(concurrent.buckets) = 0
       THEN /\ lk_thread' = [lk_thread EXCEPT ![th] = lk_idle]
            /\ lk_last' = IF lk_thread[th].op = "get"
                          THEN [op |-> "get", key |-> lk_thread[th].key, ret |-> None,
                                overwrite |-> FALSE, floor |-> 0]
                          ELSE lk_last
       ELSE /\ lk_thread' = [lk_thread EXCEPT
                ![th].pc = "bucket",
                ![th].held = @ \cup {lk_lock("buckets", 0, "read")}]
            /\ UNCHANGED lk_last
    /\ UNCHANGED <<concurrent, lk_trace, lk_frame>>

\* buckets[index].read() of get, buckets[index].write() of
\* pre_locked_remove.
lk_Bucket(th) ==
    LET i == cc_index(concurrent, lk_thread[th].key)
    IN /\ lk_thread[th].pc = "bucket"
       /\ IF lk_thread[th].op = "get"
          THEN /\ lk_free_to_read("bucket", i)
               /\ lk_thread' = [lk_thread EXCEPT
                     ![th].pc = "get",
                     ![th].held = @ \cup {lk_lock("bucket", i, "read")}]
          ELSE /\ lk_free_to_write("bucket", i)
               /\ lk_thread' = [lk_thread EXCEPT
                     ![th].pc = "pre_locked_remove",
                     ![th].held = @ \cup {lk_lock("bucket", i, "write")}]
       /\ UNCHANGED <<concurrent, lk_last, lk_trace, lk_frame>>

\* get walks the chain and returns; both guards are dropped.  overwrite
\* tells whether another thread was inside an insert of the same key, present
\* when that insert began.
lk_Get(th) ==
    /\ lk_thread[th].pc = "get"
    /\ lk_last' = [op |-> "get", key |-> lk_thread[th].key,
                   ret |-> cc_get(concurrent, lk_thread[th].key),
                   overwrite |-> lk_overwriting(lk_thread[th].key) \ {th} # {},
                   floor |-> 0]
    /\ lk_thread' = [lk_thread EXCEPT ![th] = lk_idle]
    /\ UNCHANGED <<concurrent, lk_trace, lk_frame>>

\* pre_locked_remove unlinks the entry, length.fetch_sub(1), and returns:
\* the bucket guard is dropped.  remove returns too; insert goes on to its
\* own buckets[index].write().
lk_PreLockedRemove(th) ==
    LET r == cc_pre_locked_remove(concurrent, lk_thread[th].key)
        i == cc_index(concurrent, lk_thread[th].key)
    IN /\ lk_thread[th].pc = "pre_locked_remove"
       /\ concurrent' = r.table
       /\ IF lk_thread[th].op = "remove"
          THEN lk_thread' = [lk_thread EXCEPT ![th] = lk_idle]
          ELSE lk_thread' = [lk_thread EXCEPT
                  ![th].pc = "prepend_lock",
                  ![th].old = r.ret,
                  ![th].held = lk_unlock(@, {lk_lock("bucket", i, "write")})]
       /\ UNCHANGED <<lk_last, lk_trace, lk_frame>>

\* let mut bucket = buckets[index].write() of insert
lk_PrependLock(th) ==
    LET i == cc_index(concurrent, lk_thread[th].key)
    IN /\ lk_thread[th].pc = "prepend_lock"
       /\ lk_free_to_write("bucket", i)
       /\ lk_thread' = [lk_thread EXCEPT
             ![th].pc = "prepend",
             ![th].held = @ \cup {lk_lock("bucket", i, "write")}]
       /\ UNCHANGED <<concurrent, lk_last, lk_trace, lk_frame>>

\* The new head, length.fetch_add(1), and the return of insert, which drops
\* the bucket guard and the structural read guard.
lk_Prepend(th) ==
    /\ lk_thread[th].pc = "prepend"
    /\ concurrent' = cc_prepend(concurrent, lk_thread[th].key, lk_thread[th].value)
    /\ lk_thread' = [lk_thread EXCEPT ![th] = lk_idle]
    /\ UNCHANGED <<lk_last, lk_trace, lk_frame>>

\* clear: let mut buckets = self.buckets.write()
lk_ClearLock(th) ==
    /\ lk_thread[th].pc = "clear"
    /\ lk_free_to_write("buckets", 0)
    /\ lk_thread' = [lk_thread EXCEPT
          ![th].pc = "clearing",
          ![th].held = @ \cup {lk_lock("buckets", 0, "write")}]
    /\ UNCHANGED <<concurrent, lk_last, lk_trace, lk_frame>>

\* self.length.store(0), every element replaced by RwLock::new(None), and
\* the return of clear.
lk_Clear(th) ==
    /\ lk_thread[th].pc = "clearing"
    /\ concurrent' = [concurrent EXCEPT !.length = 0,
                                        !.buckets = EmptyBuckets(Len(concurrent.buckets))]
    /\ lk_thread' = [lk_thread EXCEPT ![th] = lk_idle]
    /\ UNCHANGED <<lk_last, lk_trace, lk_frame>>

\* The steps of the call a thread is in.
lk_Step(th) ==
    \/ lk_IsEmpty(th) \/ lk_Alloc(th) \/ lk_FillFactor(th)
    \/ lk_RehashLock(th) \/ lk_RehashBucket(th) \/ lk_RehashInsert(th)
    \/ lk_RehashPrepend(th) \/ lk_RehashSwap(th)
    \/ lk_Read(th) \/ lk_Bucket(th) \/ lk_Get(th) \/ lk_PreLockedRemove(th)
    \/ lk_PrependLock(th) \/ lk_Prepend(th) \/ lk_ClearLock(th) \/ lk_Clear(th)

fx_idle == [pc |-> "idle", key |-> 0, value |-> None, old |-> None, had |-> None]

fx_Init ==
    /\ fixed = fx_with_exact_capacity(fx_capacity)
    /\ fx_thread = [th \in Threads |-> fx_idle]
    /\ fx_last = [op |-> "new", key |-> 0, value |-> None, ret |-> None, had |-> None]
    /\ fx_trace = [calls |-> 0, users |-> {}, inserted |-> {}, distinct |-> TRUE,
                   raced |-> FALSE]

\* Before any call the threads are handed HashMap::with_capacity(capacity)
\* instead; fx_last.key records the capacity asked for.
fx_New ==
    \E capacity \in 0..MaxCapacity :
        /\ fx_last.op = "new"
        /\ fx_trace.calls = 0
        /\ fixed' = fx_with_capacity(capacity)
        /\ fx_last' = [op |-> "with_capacity", key |-> capacity, value |-> None,
                       ret |-> None, had |-> None]
        /\ UNCHANGED <<fx_thread, fx_trace, fx_others>>

\* A thread calls insert(key, value) and runs let old = self.remove(&key),
\* one critical section of the bucket lock.  had is what get(key) returned
\* when the call began.
fx_Remove ==
    \E th \in Threads, key \in Keys, value \in Payloads :
        /\ fixed.built
        /\ fx_thread[th].pc = "idle"
        /\ fx_trace.calls < MaxCalls
        /\ fixed' = fx_remove(fixed, key).table
        /\ fx_thread' = [fx_thread EXCEPT ![th] =
                            [pc |-> "prepend", key |-> key, value |-> value,
                             old |-> fx_remove(fixed, key).ret, had |-> fx_get(fixed, key)]]
        /\ fx_trace' = [calls |-> fx_trace.calls + 1,
                        users |-> fx_trace.users \cup {th},
                        inserted |-> fx_trace.inserted \cup {[key |-> key, value |-> value]},
                        distinct |-> fx_trace.distinct
                                        /\ key \notin {e.key : e \in fx_trace.inserted},
                        raced |-> fx_trace.raced
                                     \/ \E other \in Threads : fx_thread[other].pc # "idle"]
        /\ UNCHANGED <<fx_last, fx_others>>

\* self.buckets[index].write(), the new head, and the return of old
fx_Prepend ==
    \E th \in Threads :
        /\ fx_thread[th].pc = "prepend"
        /\ fixed' = fx_prepend(fixed, fx_thread[th].key, fx_thread[th].value)
        /\ fx_last' = [op |-> "insert", key |-> fx_thread[th].key,
                       value |-> fx_thread[th].value, ret |-> fx_thread[th].old,
                       had |-> fx_thread[th].had]
        /\ fx_thread' = [fx_thread EXCEPT ![th] = fx_idle]
        /\ UNCHANGED <<fx_trace, fx_others>>

\* A thread calls remove(key): one critical section of the bucket lock, and
\* the return.
fx_RemoveCall ==
    \E th \in Threads, key \in Keys :
        /\ fixed.built
        /\ fx_thread[th].pc = "idle"
        /\ fx_trace.calls < MaxCalls
        /\ fixed' = fx_remove(fixed, key).table
        /\ fx_last' = [op |-> "remove", key |-> key, value |-> None,
                       ret |-> fx_remove(fixed, key).ret, had |-> fx_get(fixed, key)]
        /\ fx_trace' = [fx_trace EXCEPT !.calls = @ + 1, !.users = @ \cup {th},
                                        !.distinct = FALSE]
        /\ UNCHANGED <<fx_thread, fx_others>>

\* ps_trace.built is the capacity with_capacity was called with (0 while the
\* tables are those of with_exact_capacity); distinct holds while every call
\* since was an insert of a key not inserted before, inserted holds those keys.
ps_Init == ps_trace = [built |-> 0, distinct |-> TRUE, inserted |-> {}]

\* let mut table = HashMap::with_capacity(capacity), the same program run
\* on the open-addressing and on the cuckoo table.
ps_New ==
    \E capacity \in 1..MaxCapacity :
        /\ ps_trace.built = 0
        /\ oa_NewOf(capacity)
        /\ ck_NewOf(capacity)
        /\ ps_trace' = [built |-> capacity, distinct |-> TRUE, inserted |-> {}]
        /\ UNCHANGED <<ch_vars, qc_vars, cc_vars, fx_vars, lk_vars>>

\* table.insert(key, value) on both tables
ps_Insert ==
    \E key \in Keys, value \in Payloads :
        /\ oa_InsertOf(key, value)
        /\ ck_InsertOf(key, value)
        /\ ps_trace' = [ps_trace EXCEPT !.distinct = @ /\ key \notin ps_trace.inserted,
                                        !.inserted = @ \cup {key}]
        /\ UNCHANGED <<ch_vars, qc_vars, cc_vars, fx_vars, lk_vars>>

Init ==
    ch_Init /\ oa_Init /\ ck_Init /\ qc_Init /\ cc_Init /\ fx_Init /\ lk_Init /\ ps_Init

ch_Next == ch_New \/ ch_Insert \/ ch_Remove \/ ch_Get \/ ch_Clear

SpecChaining == Init /\ [][ch_Next]_vars

oa_Next == oa_Insert \/ oa_Remove \/ oa_Clear

oa_LoadNext == oa_WithLoadFactor \/ oa_Insert \/ oa_InsertSpins \/ oa_Remove

SpecOpen == Init /\ [][oa_Next]_vars

SpecOpenLoad == Init /\ [][oa_LoadNext]_vars

ck_Next == ck_Insert \/ ck_Remove \/ ck_Clear

SpecCuckoo == Init /\ [][ck_Next]_vars

\* The public operations on the tables of the public constructors; every
\* key is inserted with the one value that goes with it.
ck_InsertPayload == \E key \in Keys : ck_InsertOf(key, KeyPayload(key)) /\ UNCHANGED ck_others

ck_PublicNext ==
    ck_WithCapacity \/ ck_WithLoadFactor \/ ck_InsertPayload \/ ck_Remove \/ ck_Clear

SpecCuckooPublic == Init /\ [][ck_PublicNext]_vars

qc_Next == qc_Insert \/ qc_Remove \/ qc_Clear

SpecQuad == Init /\ [][qc_Next]_vars

\* A constructor call and the first insert into the table it returned.
qc_FirstInsert == qc_is_empty(quad) /\ qc_Insert

qc_BuildNext == qc_New \/ qc_FirstInsert \/ qc_InsertPanics

SpecQuadBuild == Init /\ [][qc_BuildNext]_vars

\* Tables of drawn shapes with load factor 1.0, filled by inserts up to
\* their last free slot.
qc_FillInsert == quad.built /\ qc_len(quad) < qc_slots(quad) /\ qc_Insert

qc_FillNext == qc_WithExactCapacity \/ qc_FillInsert

SpecQuadFill == Init /\ [][qc_FillNext]_vars

cc_Next ==
    \/ cc_New \/ cc_Call \/ cc_RemoveCall \/ cc_IsEmpty \/ cc_Alloc \/ cc_FillFactor
    \/ cc_Rehash \/ cc_Remove \/ cc_Prepend

SpecConcurrent == Init /\ [][cc_Next]_vars

\* The table of with_load_factor(1/64) used by the threads lock by lock.
lk_Next == \E th \in Threads : lk_Call(th) \/ lk_Len(th) \/ lk_Step(th)

SpecLocks == Init /\ [][lk_Next]_vars

\* The scheduler lets every thread that can take a step take one in the end,
\* and a lock that stays free is granted to a thread waiting for it.
\* The calls are all on one key, so that they meet at one bucket lock.
lk_FairNext == \E th \in Threads : lk_CallOn(th, {0}) \/ lk_Step(th)

SpecLocksFair == Init /\ [][lk_FairNext]_vars /\ \A th \in Threads : WF_vars(lk_Step(th))

ps_Next == ps_New \/ ps_Insert

SpecPresized == Init /\ [][ps_Next]_vars

fx_Next == fx_New \/ fx_Remove \/ fx_Prepend \/ fx_RemoveCall

SpecFixed == Init /\ [][fx_Next]_vars

\* ------------------------------------------------------------------
\* Properties of the chaining table
\* ------------------------------------------------------------------
\* Position of the first entry for key in its bucket chain, 0 when absent.
ch_position(t, key) ==
    IF Len(t.buckets) = 0 THEN 0
    ELSE LET chain == t.buckets[ch_index(t, key)]
             hits == {p \in 1..Len(chain) : chain[p].key = key}
         IN IF hits = {} THEN 0 ELSE SetMin(hits)

\* C1: after any sequence of insert calls (keys may repeat and collide, growth
\* may occur), len() equals the number of distinct keys inserted.
C1_LenCountsDistinctKeys ==
    ch_trace.inserts_only => ch_len(chaining) = Cardinality(ch_trace.inserted)

\* C2: remove(k) of a present key returns its value, a following get(k)
\* returns nothing and len() decreases by exactly one, whatever position the
\* entry has in its chain.
C2_RemovePresentKey ==
    (ch_last.op = "remove" /\ ch_get(ch_last.pre, ch_last.key) # None) =>
        /\ ch_last.ret = ch_get(ch_last.pre, ch_last.key)
        /\ ch_get(chaining, ch_last.key) = None
        /\ ch_len(chaining) = ch_len(ch_last.pre) - 1

\* C8: an insert that triggers a growth rehash leaves the bucket count exactly
\* doubled, every other key that get found before returns the same value
\* after, and the inserted key returns the new value.
C8_RehashDoublesAndKeeps ==
    (ch_last.op = "insert" /\ ch_over_load(ch_last.pre)) =>
        /\ Len(chaining.buckets) = 2 * Len(ch_last.pre.buckets)
        /\ ch_get(chaining, ch_last.key) = ch_last.value
        /\ \A k \in Keys \ {ch_last.key} :
               ch_get(ch_last.pre, k) # None => ch_get(chaining, k) = ch_get(ch_last.pre, k)

C8_Witness ==
    /\ ch_last.op = "insert"
    /\ ch_over_load(ch_last.pre)
    /\ Len(chaining.buckets) = 2 * Len(ch_last.pre.buckets)
    /\ \E k \in Keys \ {ch_last.key} : ch_get(ch_last.pre, k) # None

\* C14: in every state between operations fill_factor() does not exceed the
\* load factor the table was constructed with.
C14_FillFactorBounded ==
    chaining.length * chaining.load_factor.den
        <= chaining.load_factor.num * Len(chaining.buckets)

\* C9: immediately after insert(k, v) returns, get(k) returns v; and when k was
\* not previously inserted the insert returned nothing.
C9_InsertGetRoundTrip ==
    ch_last.op = "insert" =>
        /\ ch_get(chaining, ch_last.key) = ch_last.value
        /\ ch_last.fresh => ch_last.ret = None

C9_Witness ==
    /\ ch_last.op = "insert"
    /\ ch_last.fresh
    /\ ch_last.ret = None
    /\ Len(chaining.buckets[ch_index(chaining, ch_last.key)]) >= 3
    /\ ch_get(chaining, ch_last.key) = ch_last.value

\* ------------------------------------------------------------------
\* Properties of the open-addressing table
\* ------------------------------------------------------------------
\* C5: after any sequence of inserts and removes, inserting a key that is
\* currently present returns its old value, a following get returns the new
\* value, and len() is unchanged.
C5_OverwritePresentKey ==
    (oa_last.op = "insert" /\ oa_get(oa_last.pre, oa_last.key) # None) =>
        /\ oa_last.ret = oa_get(oa_last.pre, oa_last.key)
        /\ oa_get(open, oa_last.key) = oa_last.value
        /\ oa_len(open) = oa_len(oa_last.pre)

\* C10: removing a key never makes another key unreachable: after remove(k),
\* every other key that get found before the removal is still found with the
\* same value, also when its probe run passes through the new tombstone.
C10_RemoveKeepsOtherKeys ==
    oa_last.op = "remove" =>
        \A k \in Keys \ {oa_last.key} :
            oa_get(oa_last.pre, k) # None => oa_get(open, k) = oa_get(oa_last.pre, k)

\* A removal has left a tombstone that the probe run of another, still
\* retrievable key passes through.
C10_Witness ==
    /\ oa_last.op = "remove"
    /\ oa_last.ret # None
    /\ \E k \in Keys \ {oa_last.key} :
          /\ oa_get(open, k) # None
          /\ \E n \in oa_run(open, k) :
                /\ n < SetMin(oa_hits(open, k))
                /\ open.buckets[oa_probe(open, k, n)].kind = "Tomb"
                /\ oa_last.pre.buckets[oa_probe(open, k, n)].kind = "Entry"
                /\ oa_last.pre.buckets[oa_probe(open, k, n)].key = oa_last.key

\* C15: after clear(), len() == 0 and get returns nothing for every key
\* inserted before the clear, and this stays true for those keys after
\* further inserts of other keys.
C15_ClearForgetsKeys ==
    /\ oa_last.op = "clear" => oa_len(open) = 0
    /\ \A k \in oa_trace.cleared : oa_get(open, k) = None

\* Two keys inserted before a clear have not been inserted since; the key
\* inserted last is found, and its insert grew the table.
C15_Witness ==
    /\ Cardinality(oa_trace.cleared) >= 2
    /\ oa_trace.since # {}
    /\ oa_last.op = "insert"
    /\ Len(open.buckets) > Len(oa_last.pre.buckets)
    /\ \A k \in oa_trace.since : oa_get(open, k) # None
    /\ \A k \in oa_trace.cleared : oa_get(open, k) = None

\* C21: every insert call terminates, whatever load factor the table was
\* constructed with: the probe loop always reaches an empty slot, a
\* tombstone or the matching key.
C21_InsertTerminates == oa_last.op # "insert_spins"

\* Slots of the bucket array holding an entry for key, and slots holding a
\* tombstone.
oa_slots_of(t, key) ==
    {i \in 1..Len(t.buckets) : t.buckets[i].kind = "Entry" /\ t.buckets[i].key = key}

oa_tomb_slots(t) == {i \in 1..Len(t.buckets) : t.buckets[i].kind = "Tomb"}

\* C23: in every reachable state no two occupied slots hold the same key: an
\* insert whose probe meets a tombstone before the slot holding the same key
\* overwrites that entry instead of placing a second copy in the tombstone.
C23_KeysUniqueAmongSlots ==
    \A k \in Keys : Cardinality(oa_slots_of(open, k)) <= 1

\* C24: remove(k) of a present key turns exactly the slot holding k into a
\* tombstone, decrements the live count by one and increments the tombstone
\* count by one, every other slot unchanged; remove of an absent key changes
\* nothing.
C24_RemoveFrame ==
    oa_last.op = "remove" =>
        IF oa_slots_of(oa_last.pre, oa_last.key) = {}
        THEN open = oa_last.pre /\ oa_last.ret = None
        ELSE \E i \in oa_slots_of(oa_last.pre, oa_last.key) :
                /\ open.buckets = [oa_last.pre.buckets EXCEPT ![i] = oa_Tomb]
                /\ oa_last.ret = oa_last.pre.buckets[i].value
                /\ open.length = oa_last.pre.length - 1
                /\ open.tomb_count = oa_last.pre.tomb_count + 1
                /\ open.load_factor = oa_last.pre.load_factor

\* A present key has been removed from a table that held another entry and
\* a tombstone already.
C24_Witness ==
    /\ oa_last.op = "remove"
    /\ oa_slots_of(oa_last.pre, oa_last.key) # {}
    /\ oa_tomb_slots(oa_last.pre) # {}
    /\ \E k \in Keys \ {oa_last.key} : oa_slots_of(open, k) # {}
    /\ Cardinality(oa_tomb_slots(open)) = Cardinality(oa_tomb_slots(oa_last.pre)) + 1

\* C25: in every reachable state the tomb_count field equals the number of
\* slots that hold a tombstone, and len() + tomb_count never exceeds the
\* number of slots.
C25_TombCountExact ==
    /\ open.tomb_count = Cardinality(oa_tomb_slots(open))
    /\ oa_len(open) + open.tomb_count <= Len(open.buckets)

\* C26: an insert that finds (live entries + tombstones) / slots >= load
\* factor rehashes before placing; right after that rehash the slot count is
\* exactly doubled, no slot holds a tombstone, the tombstone count is zero
\* and every live entry is still present.
C26_RehashDoublesAndClearsTombs ==
    (oa_last.op = "insert" /\ oa_over_load(oa_last.pre)) =>
        LET rehashed == oa_rehash(oa_last.pre)
        IN /\ Len(rehashed.buckets) = 2 * Len(oa_last.pre.buckets)
           /\ oa_tomb_slots(rehashed) = {}
           /\ rehashed.tomb_count = 0
           /\ \A k \in Keys : oa_get(rehashed, k) = oa_get(oa_last.pre, k)

\* ------------------------------------------------------------------
\* Properties of the two-choice cuckoo table
\* ------------------------------------------------------------------
\* C6: when insert(k, v) of an absent key returns, it has returned nothing,
\* len() has grown by exactly one, get(k) returns v, and every key that was
\* present before still returns its previous value, whether the insert ran
\* the displacement loop, re-seeded at the same capacity or doubled.
C6_InsertAbsentKey ==
    [][(ck_last'.op = "insert" /\ ck_get(cuckoo, ck_last'.key) = None) =>
          /\ ck_last'.ret = None
          /\ ck_len(cuckoo') = ck_len(cuckoo) + 1
          /\ ck_get(cuckoo', ck_last'.key) = ck_last'.value
          /\ \A k \in Keys \ {ck_last'.key} : ck_get(cuckoo', k) = ck_get(cuckoo, k)]_ck_vars

\* An insert of an absent key has doubled the table, found both slots taken,
\* run out of displacement steps and re-seeded, and three keys are present.
C6_Witness ==
    /\ ck_last.op = "insert"
    /\ ck_last.absent
    /\ ck_last.how = {"double", "kick", "reseed"}
    /\ ck_len(cuckoo) = 3
    /\ \A k \in 0..2 : ck_get(cuckoo, k) # None

\* C20: one insert call performs at most one same-capacity re-seeding rehash
\* and one retry after its eviction loop is exhausted.
C20_OneReseedPerInsert ==
    ck_last.op = "insert" => ck_last.rehashes <= 1

\* C27: insert resolves in this priority order: the same key in its A slot
\* is overwritten; else the same key in its B slot is overwritten, also when
\* the A slot is empty; else an empty A slot is filled; else an empty B slot
\* is filled; else displacement starts.  No key is ever stored in both
\* tables.  The order is observed on inserts that do not grow the table first.
C27_InsertPriorityOrder ==
    [][(ck_last'.op = "insert" /\ ~ck_over_load(cuckoo)) =>
          LET key == ck_last'.key
              entry == [key |-> key, value |-> ck_last'.value]
              a == ck_index_a(cuckoo, key)
              b == ck_index_b(cuckoo, key)
              written(slot) == [cuckoo EXCEPT !.buckets[slot] = <<entry>>]
              added(slot) == [cuckoo EXCEPT !.buckets[slot] = <<entry>>, !.length = @ + 1]
          IN /\ ~(ck_holds(cuckoo', ck_index_a(cuckoo', key), key)
                    /\ ck_holds(cuckoo', ck_index_b(cuckoo', key), key))
             /\ IF ck_holds(cuckoo, a, key)
                THEN cuckoo' = written(a) /\ ck_last'.ret = cuckoo.buckets[a][1].value
                ELSE IF ck_holds(cuckoo, b, key)
                THEN cuckoo' = written(b) /\ ck_last'.ret = cuckoo.buckets[b][1].value
                ELSE IF cuckoo.buckets[a] = <<>>
                THEN cuckoo' = added(a) /\ ck_last'.ret = None
                ELSE IF cuckoo.buckets[b] = <<>>
                THEN cuckoo' = added(b) /\ ck_last'.ret = None
                ELSE "kick" \in ck_last'.how]_ck_vars

\* An insert has overwritten the key in its B slot while its A slot is empty.
C27_Witness ==
    /\ ck_last.op = "insert"
    /\ ck_last.ret # None
    /\ ck_last.how = {}
    /\ cuckoo.buckets[ck_index_a(cuckoo, ck_last.key)] = <<>>
    /\ ck_holds(cuckoo, ck_index_b(cuckoo, ck_last.key), ck_last.key)

\* C28: once displacement has started, the loop that tries to re-place the
\* evicted entry runs for len() + 1 iterations before the insert declares a
\* cycle and re-seeds.
C28_LoopRunsLenPlusOne ==
    [][(ck_last'.op = "insert" /\ "reseed" \in ck_last'.how) =>
          ck_last'.ran = ck_len(cuckoo) + 1]_ck_vars

\* C29: an insert that exhausts its eviction loop rebuilds the table at the
\* same capacity; the number of slots changes only in an insert that found
\* fill_factor() >= load factor at its start, and then it exactly doubles.
C29_SlotsChangeOnlyByDoubling ==
    [][(ck_last'.op = "insert" /\ Len(cuckoo'.buckets) # Len(cuckoo.buckets)) =>
          /\ ck_over_load(cuckoo)
          /\ Len(cuckoo'.buckets) = 2 * Len(cuckoo.buckets)]_ck_vars

\* Slots of the bucket array that hold an entry.
ck_occupied(t) == {i \in 1..Len(t.buckets) : t.buckets[i] # <<>>}

\* C30: between operations each live entry is stored either in table A at
\* index hash_a(key) mod half or in table B at index hash_b(key) mod half
\* under the current hash functions, each key is stored at most once, and
\* len() equals the number of occupied slots.
C30_EntriesAtCandidateSlots ==
    /\ \A i \in ck_occupied(cuckoo) :
          i \in {ck_index_a(cuckoo, cuckoo.buckets[i][1].key),
                 ck_index_b(cuckoo, cuckoo.buckets[i][1].key)}
    /\ \A i, j \in ck_occupied(cuckoo) :
          cuckoo.buckets[i][1].key = cuckoo.buckets[j][1].key => i = j
    /\ ck_len(cuckoo) = Cardinality(ck_occupied(cuckoo))

\* After an insert that re-seeded, three keys are stored, in both tables.
C30_Witness ==
    /\ ck_last.op = "insert"
    /\ "reseed" \in ck_last.how
    /\ ck_len(cuckoo) = 3
    /\ \E i, j \in ck_occupied(cuckoo) : i <= ck_half(cuckoo) /\ j > ck_half(cuckoo)

\* C38: the bucket array is empty, and then the table holds nothing, so that
\* get and remove return before they divide; or its length is even and at
\* least 2, and then the A index of every key lies in the first half and
\* the B index in the second, where the unreachable!() arms are not taken.
C38_BucketArrayEvenAndIndexed ==
    /\ Len(cuckoo.buckets) = 0 => ck_is_empty(cuckoo)
    /\ Len(cuckoo.buckets) # 0 =>
          /\ Len(cuckoo.buckets) % 2 = 0
          /\ ck_half(cuckoo) >= 1
          /\ \A key \in Keys :
                /\ ck_index_a(cuckoo, key) \in 1..ck_half(cuckoo)
                /\ ck_index_b(cuckoo, key) \in (ck_half(cuckoo) + 1)..Len(cuckoo.buckets)

\* A lazily allocated table has been doubled by an insert and holds two
\* keys.
C38_Witness ==
    /\ ck_last.op = "insert"
    /\ Len(cuckoo.buckets) = 2 * DefaultCapacity
    /\ ck_len(cuckoo) >= 2

(***************************************************************************)
(* Quad-cuckoo table                                                       *)
(***************************************************************************)
\* C7: after any sequence of inserts of distinct keys, whatever random
\* evictions, doubling rehashes and same-capacity re-seeding rehashes they
\* went through, len() is the number of keys inserted and get returns the
\* inserted value of every one of them.
C7_DistinctInsertsAllKept ==
    qc_trace.distinct =>
        /\ qc_len(quad) = Cardinality(qc_trace.inserted)
        /\ \A e \in qc_trace.inserted : qc_get(quad, e.key) = e.value

\* Three distinct keys have been inserted and nothing else was called; on
\* the way an entry was kicked, the table was doubled and it was re-seeded.
C7_Witness ==
    /\ qc_trace.distinct
    /\ Cardinality(qc_trace.inserted) = 3
    /\ qc_trace.how = {"double", "kick", "reseed"}


\* Number of slots that hold an entry for key.
qc_copies(t, key) == Len(SelectSeq(qc_entries(t.buckets), LAMBDA e : e.key = key))

\* C31: an insert that does not grow the table first overwrites the key
\* where one of its candidate slots holds it, and changes nothing else; else
\* it fills the first empty candidate slot, and evicts nothing; only when
\* every candidate slot holds another key does it evict.  No key is ever
\* stored in two slots.
C31_PlacementOrder ==
    [][/\ \A key \in Keys : qc_copies(quad', key) <= 1
       /\ (qc_last'.op = "insert" /\ quad.built /\ ~qc_over_load(quad)) =>
             LET key == qc_last'.key
                 entry == [key |-> key, value |-> KeyPayload(key)]
                 c == qc_candidates(quad, key)
             IN IF qc_found(quad, key) # 0
                THEN /\ quad' = qc_put(quad, c[qc_found(quad, key)], entry)
                     /\ qc_last'.ret = qc_slot(quad, c[qc_found(quad, key)])[1].value
                ELSE IF qc_empty_spot(quad, key) # 0
                THEN /\ quad' = [qc_put(quad, c[qc_empty_spot(quad, key)], entry)
                                    EXCEPT !.length = @ + 1]
                     /\ qc_last'.ret = None
                ELSE /\ \A n \in 1..Len(c) : qc_slot(quad, c[n]) # <<>>
                     /\ qc_last'.ret = None
                     /\ qc_get(quad', key) = entry.value]_qc_vars

\* An insert has put its key into an empty candidate slot although another
\* candidate slot of the key holds an entry it could have evicted.
C31_Witness ==
    /\ qc_last.op = "insert"
    /\ qc_last.ret = None
    /\ qc_trace.distinct
    /\ "kick" \notin qc_trace.how
    /\ qc_copies(quad, qc_last.key) = 1
    /\ \E n \in 1..Len(qc_candidates(quad, qc_last.key)) :
           LET slot == qc_slot(quad, qc_candidates(quad, qc_last.key)[n])
           IN slot # <<>> /\ slot[1].key # qc_last.key

\* C22: with load factor 1.0, inserting exactly as many distinct keys as the
\* table has slots never grows the table: whenever those inserts have all
\* returned, the slot count is unchanged and fill_factor() == 1.0.
C22_FillsWithoutGrowing ==
    (/\ quad.built
     /\ qc_trace.distinct
     /\ Cardinality(qc_trace.inserted) <= qc_built.capacity) =>
        /\ qc_slots(quad) = qc_built.capacity
        /\ Cardinality(qc_trace.inserted) = qc_built.capacity =>
               qc_len(quad) = qc_slots(quad)

\* A table of three slots, built by a constructor call, holds three distinct
\* keys, and an insert on the way exhausted its loop and re-seeded.
C22_Witness ==
    /\ qc_last.op = "insert"
    /\ qc_trace.distinct
    /\ qc_built.capacity = 3
    /\ Cardinality(qc_trace.inserted) = 3
    /\ "reseed" \in qc_trace.how
    /\ qc_len(quad) = qc_slots(quad)

\* C17: construction fails, and no table is produced, whenever the requested
\* capacity is not an exact multiple of the bucket size or not an exact
\* multiple of the number of hash functions.
C17_ConstructionAsserts ==
    (/\ qc_last.op = "with_exact_capacity"
     /\ \/ qc_built.bucket_size = 0
        \/ qc_built.hasher_amount = 0
        \/ qc_built.capacity % qc_built.bucket_size # 0
        \/ qc_built.capacity % qc_built.hasher_amount # 0) =>
        ~quad.built

\* with_exact_capacity(4, 1, 3, ..): large enough for its 1 * 3 candidate
\* slots, a multiple of the bucket size, not one of the hash functions.
C17_Witness ==
    /\ qc_last.op = "with_exact_capacity"
    /\ qc_built.bucket_size >= 1
    /\ qc_built.hasher_amount >= 1
    /\ qc_built.capacity >= qc_built.bucket_size * qc_built.hasher_amount
    /\ qc_built.capacity % qc_built.bucket_size = 0
    /\ qc_built.capacity % qc_built.hasher_amount # 0
    /\ ~quad.built

\* C18: the first insert into a table built by new() or with_load_factor()
\* lazily allocates 64 slots in total, so that fill_factor() is 1/64 after
\* that insert.
C18_LazyAllocation64Slots ==
    (/\ qc_built.op \in {"new", "with_load_factor"}
     /\ qc_last.op = "insert"
     /\ qc_trace.distinct
     /\ Cardinality(qc_trace.inserted) = 1) =>
        /\ qc_slots(quad) = 64
        /\ qc_len(quad) * 64 = qc_slots(quad)

\* The buckets hash function i addresses: the i-th chunk of
\* chunks_exact(chunk_size).zip(&self.hasher_vec).
qc_chunk(t, i) == ((i - 1) * qc_chunk_size(t) + 1)..(i * qc_chunk_size(t))

\* C39: every table with_exact_capacity returns, its assertions passed, has
\* a number of buckets that is a multiple of the number of hash functions,
\* and every bucket lies in the chunk of exactly one hash function.
C39_BucketsSplitIntoEqualChunks ==
    (qc_last.op = "with_exact_capacity" /\ quad.built) =>
        /\ Len(quad.buckets) % Len(quad.hasher_vec) = 0
        /\ \A b \in 1..Len(quad.buckets) :
               Cardinality({i \in 1..Len(quad.hasher_vec) : b \in qc_chunk(quad, i)}) = 1

(***************************************************************************)
(* Resizable concurrent chaining table                                     *)
(***************************************************************************)
cc_all_returned == \A th \in Threads : cc_thread[th].pc = "idle"

\* C3: when the threads have inserted one and the same key, concurrently or
\* not, and all calls have returned, the chains hold exactly one entry for
\* that key.
C3_RacingInsertsOneEntry ==
    (cc_all_returned /\ cc_trace.inserts_only /\ cc_trace.calls >= 2
        /\ Cardinality({e.key : e \in cc_trace.inserted}) = 1) =>
        \A e \in cc_trace.inserted : cc_copies(concurrent, e.key) = 1

\* C4: when every call so far inserted a key of its own into the initially
\* empty table and all calls have returned, len() is the number of calls
\* and get returns the inserted value of every key, whatever lazy
\* allocation and growth rehashes the calls raced through.
C4_DistinctInsertsAllCounted ==
    (cc_all_returned /\ cc_trace.distinct) =>
        /\ cc_len(concurrent) = cc_trace.calls
        /\ \A e \in cc_trace.inserted : cc_get(concurrent, e.key) = e.value

\* Three calls with keys of their own have returned; the table was lazily
\* allocated, grown, and one rehash call found the growth already done.
C4_Witness ==
    /\ cc_all_returned
    /\ cc_trace.distinct
    /\ cc_trace.calls = 3
    /\ cc_trace.how = {"alloc", "rehash", "skip"}
    /\ cc_len(concurrent) = 3

\* C11: for any mix of concurrent insert and remove calls, once every call
\* has returned, len() equals the number of distinct keys for which get
\* returns a value.
C11_LenCountsRetrievableKeys ==
    cc_all_returned =>
        cc_len(concurrent) = Cardinality({k \in Keys : cc_get(concurrent, k) # None})

lk_write == lk_lock("buckets", 0, "write")

\* The steps at which a thread is inside the loop or the swap of rehash.
lk_in_rehash == {"rehash_bucket", "rehash_insert", "rehash_prepend", "rehash_swap"}

\* C32: while a thread holds the structural lock for write, in rehash or in
\* clear, no other thread holds the structural lock for read or any bucket
\* lock of the table.
C32_WriterExcludesBucketActivity ==
    \A th \in Threads :
        lk_write \in lk_thread[th].held =>
            \A other \in Threads \ {th} : lk_of_table(lk_thread[other].held) = {}

\* A thread moves a chain inside rehash while another thread, its call
\* begun, waits for the structural lock.
C32_Witness ==
    \E th \in Threads : \E other \in Threads \ {th} :
        /\ lk_write \in lk_thread[th].held
        /\ lk_thread[th].pc = "rehash_prepend"
        /\ lk_thread[other].pc \in {"read", "fill_factor", "rehash", "clear"}

\* C33: a thread that has decided to rehash and obtains the structural write
\* lock goes on to replace the bucket array exactly when the load is still at
\* or above the load factor; otherwise it returns from rehash holding nothing
\* and leaves the table as it is.  The bucket array changes its size only in
\* the swap of such a rehash.
C33_RehashRechecksUnderLock ==
    [][/\ \A th \in Threads :
             (lk_thread[th].pc = "rehash" /\ lk_thread'[th].pc # "rehash") =>
                 IF cc_over_load(concurrent)
                 THEN /\ lk_thread'[th].pc = "rehash_bucket"
                      /\ lk_write \in lk_thread'[th].held
                 ELSE /\ lk_thread'[th].pc = "read"
                      /\ lk_thread'[th].held = {}
                      /\ concurrent' = concurrent
       /\ (Len(concurrent.buckets) > 0 /\ Len(concurrent'.buckets) # Len(concurrent.buckets)) =>
             /\ cc_over_load(concurrent)
             /\ \E th \in Threads : lk_thread[th].pc = "rehash_swap"
       /\ \A th \in Threads : lk_thread[th].pc \in lk_in_rehash => cc_over_load(concurrent)]_vars

\* Two threads decided to rehash from the same state; one has doubled the
\* table and the other, the write lock obtained, has found nothing to do.
C33_Witness ==
    /\ {"rehash", "skip"} \subseteq lk_trace.how
    /\ Len(concurrent.buckets) = 2 * DefaultCapacity
    /\ \A th \in Threads : lk_thread[th].pc = "idle"

\* C34 as stated: no thread ever holds two bucket locks at the same time.
C34_AtMostOneBucketLock ==
    \A th \in Threads : Cardinality(lk_bucket_locks(lk_thread[th].held)) <= 1

\* C34, amended: no thread ever holds two bucket locks of the same bucket
\* array.  Two bucket locks at once are held only inside rehash, under the
\* structural write lock: the lock of the old bucket being emptied and the
\* lock of one bucket of the new table that only this thread can reach.
C34_OneBucketLockPerArray ==
    \A th \in Threads :
        /\ Cardinality({l \in lk_thread[th].held : l.name = "bucket"}) <= 1
        /\ Cardinality({l \in lk_thread[th].held : l.name = "new_bucket"}) <= 1
        /\ Cardinality(lk_bucket_locks(lk_thread[th].held)) > 1 =>
               /\ lk_write \in lk_thread[th].held
               /\ lk_thread[th].pc \in lk_in_rehash

\* Inside rehash a thread holds the lock of an old bucket and that of a
\* bucket of the new table.
C34_Witness ==
    \E th \in Threads :
        /\ lk_thread[th].pc = "rehash_prepend"
        /\ Cardinality({l \in lk_thread[th].held : l.name = "bucket"}) = 1
        /\ Cardinality({l \in lk_thread[th].held : l.name = "new_bucket"}) = 1

\* C35: under fair scheduling every call a thread has begun returns: no
\* thread waits for ever for the structural lock or for a bucket lock.
C35_EveryCallReturns ==
    \A th \in Threads : (lk_thread[th].pc # "idle") ~> (lk_thread[th].pc = "idle")

\* A thread waits for the structural write lock to rehash while another
\* holds the structural read lock and a bucket lock.
C35_Witness ==
    \E th \in Threads : \E other \in Threads \ {th} :
        /\ lk_thread[th].pc = "rehash"
        /\ lk_lock("buckets", 0, "read") \in lk_thread[other].held
        /\ lk_bucket_locks(lk_thread[other].held) # {}

\* C36: while no remove and no clear has been called, a get(k) that reads
\* the chain while another thread is inside an insert of k, present when
\* that insert began, returns a value; and len() returns at least the
\* number of keys that were present when such an insert began.
C36_OverwriteNeverHidesKey ==
    ~lk_trace.removes =>
        /\ (lk_last.op = "get" /\ lk_last.overwrite) => lk_last.ret # None
        /\ lk_last.op = "len" => lk_last.ret >= lk_last.floor

(***************************************************************************)
(* Fixed-capacity concurrent chaining table                                *)
(***************************************************************************)
fx_all_returned == \A th \in Threads : fx_thread[th].pc = "idle"

\* C12: used by a single thread, insert(k, v2) of a key that is present with
\* value v1 returns v1 and leaves exactly one entry for k: a following
\* remove(k) returns v2 and then get(k) returns nothing, whatever position
\* the entry of k had in its chain.
C12_SingleThreadOverwrite ==
    (/\ fx_last.op = "insert"
     /\ Cardinality(fx_trace.users) = 1
     /\ fx_all_returned
     /\ fx_last.had # None) =>
        /\ fx_last.ret = fx_last.had
        /\ fx_copies(fixed, fx_last.key) = 1
        /\ fx_remove(fixed, fx_last.key).ret = fx_last.value
        /\ fx_get(fx_remove(fixed, fx_last.key).table, fx_last.key) = None

\* C13: when every call so far inserted a key of its own and all calls have
\* returned, get returns the inserted value of every key, whichever of them
\* share a bucket.
C13_DistinctInsertsAllFound ==
    (fx_all_returned /\ fx_trace.distinct) =>
        \A e \in fx_trace.inserted : fx_get(fixed, e.key) = e.value

\* Three calls with keys of their own have returned, one of them began
\* while another was between its remove and its prepend, and two of the
\* keys share a bucket chain.
C13_Witness ==
    /\ fx_all_returned
    /\ fx_trace.distinct
    /\ fx_trace.raced
    /\ Cardinality(fx_trace.inserted) = 3
    /\ \E b \in 1..Len(fixed.buckets) : Len(fixed.buckets[b]) >= 2
    /\ \A e \in fx_trace.inserted : fx_get(fixed, e.key) = e.value

\* C16: with_capacity(0) panics and produces no table; with_capacity(n) for
\* n >= 1 produces a table of exactly 8 * n buckets.
C16_WithCapacity ==
    fx_last.op = "with_capacity" =>
        /\ fx_last.key = 0 => ~fixed.built
        /\ fx_last.key >= 1 => (fixed.built /\ Len(fixed.buckets) = 8 * fx_last.key)

\* with_capacity(0) has panicked.
C16_Witness ==
    /\ fx_last.op = "with_capacity"
    /\ fx_last.key = 0
    /\ ~fixed.built

\* C37: when two insert calls of one and the same key have overlapped, the
\* second beginning while the first was between its remove and its prepend,
\* and both have returned, the table holds exactly one entry for the key:
\* one remove(k) makes get(k) return nothing.
C37_RacedInsertsLeaveOneEntry ==
    (/\ fx_all_returned
     /\ fx_trace.raced
     /\ fx_trace.calls = 2
     /\ Cardinality({e.key : e \in fx_trace.inserted}) = 1) =>
        \A k \in {e.key : e \in fx_trace.inserted} :
            /\ fx_copies(fixed, k) = 1
            /\ fx_get(fx_remove(fixed, k).table, k) = None

(***************************************************************************)
(* Pre-sized open-addressing and cuckoo tables                             *)
(***************************************************************************)
\* C19: for n >= 1 the tables built by with_capacity(n) have 8 * n slots
\* (open addressing) and 16 * n slots (cuckoo), and while all calls are
\* inserts of distinct keys, at most n of them, the slot counts stay so.
C19_PresizedKeepsCapacity ==
    (/\ ps_trace.built >= 1
     /\ ps_trace.distinct
     /\ Cardinality(ps_trace.inserted) <= ps_trace.built) =>
        /\ Len(open.buckets) = 8 * ps_trace.built
        /\ Len(cuckoo.buckets) = 16 * ps_trace.built

\* with_capacity(2) tables have taken two distinct keys, which both hold.
C19_Witness ==
    /\ ps_trace.built = 2
    /\ ps_trace.distinct
    /\ Cardinality(ps_trace.inserted) = 2
    /\ Len(open.buckets) = 16
    /\ Len(cuckoo.buckets) = 32
    /\ \A k \in ps_trace.inserted : oa_get(open, k) # None /\ ck_get(cuckoo, k) # None

=============================================================================
